---- MODULE Spec2Model ----
(***************************************************************************)
(* State-machine model of the DataFrame wrapper of nodejs-polars           *)
(* (src/polars/dataframe.ts).  A DataFrame handle is a Proxy around an     *)
(* object that holds a reference `_df` to a native frame.  The native      *)
(* frame engine is not part of the TypeScript sources; its operations are  *)
(* the n* operators below, written from the specification of the engine.   *)
(* The TypeScript methods are the operators that keep the source's names.  *)
(***************************************************************************)
EXTENDS Integers, Sequences, FiniteSets, TLC

VARIABLES
  store,   \* native frames: object id -> frame (a sequence of Series)
  ptr,     \* handle name -> object id of its `_df` (0: handle not created)
  last     \* the last call made: operation, arguments, error, returned value

vars == <<store, ptr, last>>

(***************************************************************************)
(* Bounds and input pools                                                  *)
(***************************************************************************)
MaxHeight == 2
MaxRows == 2

\* the absent value of a cell (validity bit false)
Null == -1

NoErr == "ok"

(***************************************************************************)
(* Data model: Series and frames                                           *)
(***************************************************************************)
Series(name, values, dtype) == [name |-> name, dtype |-> dtype, values |-> values]

alias(s, name) == [s EXCEPT !.name = name]

Width(df) == Len(df)

Height(df) == IF Len(df) = 0 THEN 0 ELSE Len(df[1].values)

Columns(df) == [i \in 1..Len(df) |-> df[i].name]

NameSet(df) == {df[i].name : i \in 1..Len(df)}

nSchema(df) == [i \in 1..Len(df) |-> <<df[i].name, df[i].dtype>>]

indexOf(names, n) ==
  IF \E i \in 1..Len(names) : names[i] = n
  THEN (CHOOSE i \in 1..Len(names) : names[i] = n /\ \A j \in 1..(i-1) : names[j] # n) - 1
  ELSE -1

Ok(df) == [err |-> NoErr, df |-> df]

Fail(e) == [err |-> e, df |-> <<>>]

\* the value of an optional argument (<<>>: undefined, <<v>>: v)
Default(opt, d) == IF Len(opt) = 0 THEN d ELSE opt[1]

(***************************************************************************)
(* Native frame engine                                                     *)
(***************************************************************************)
nWithColumn(df, s) ==
  IF Width(df) > 0 /\ Len(s.values) # Height(df) THEN Fail("LengthMismatch")
  ELSE IF s.name \in NameSet(df)
       THEN Ok([i \in 1..Len(df) |-> IF df[i].name = s.name THEN s ELSE df[i]])
       ELSE Ok(Append(df, s))

RECURSIVE nHstack(_, _)
nHstack(df, cols) ==
  IF Len(cols) = 0 THEN Ok(df)
  ELSE LET s == Head(cols)
       IN  IF s.name \in NameSet(df) THEN Fail("DuplicateColumn")
           ELSE IF Width(df) > 0 /\ Len(s.values) # Height(df) THEN Fail("LengthMismatch")
           ELSE nHstack(Append(df, s), Tail(cols))

nVstack(df, other) ==
  IF nSchema(df) # nSchema(other) THEN Fail("SchemaMismatch")
  ELSE Ok([i \in 1..Len(df) |-> [df[i] EXCEPT !.values = df[i].values \o other[i].values]])

\* extend: the same requirements and result as vstack
nExtend(df, other) == nVstack(df, other)

nInsertAtIdx(df, idx, s) ==
  IF idx < 0 \/ idx > Width(df) THEN Fail("InvalidArgument")
  ELSE IF s.name \in NameSet(df) THEN Fail("DuplicateColumn")
  ELSE IF Width(df) > 0 /\ Len(s.values) # Height(df) THEN Fail("LengthMismatch")
  ELSE Ok(SubSeq(df, 1, idx) \o <<s>> \o SubSeq(df, idx + 1, Len(df)))

nReplaceAtIdxUnchecked(df, idx, s) ==
  IF idx < 0 \/ idx >= Width(df) THEN Fail("InvalidArgument")
  ELSE Ok([df EXCEPT ![idx + 1] = s])

nReplaceAtIdx(df, idx, s) ==
  IF idx < 0 \/ idx >= Width(df) THEN Fail("InvalidArgument")
  ELSE IF Len(s.values) # Height(df) THEN Fail("LengthMismatch")
  ELSE IF \E i \in 1..Len(df) : i # idx + 1 /\ df[i].name = s.name THEN Fail("DuplicateColumn")
  ELSE Ok([df EXCEPT ![idx + 1] = s])

nRename(df, column, newName) ==
  IF column \notin NameSet(df) THEN Fail("ColumnNotFound")
  ELSE IF \E i \in 1..Len(df) : df[i].name = newName /\ df[i].name # column
       THEN Fail("DuplicateColumn")
  ELSE Ok([i \in 1..Len(df) |-> IF df[i].name = column THEN alias(df[i], newName) ELSE df[i]])

nDrop(df, name) ==
  IF name \notin NameSet(df) THEN Fail("ColumnNotFound")
  ELSE LET k == indexOf(Columns(df), name) + 1
       IN  Ok(SubSeq(df, 1, k - 1) \o SubSeq(df, k + 1, Len(df)))

nSetColumns(df, names) ==
  IF Len(names) # Width(df) THEN Fail("LengthMismatch")
  ELSE IF \E i, j \in 1..Len(names) : i # j /\ names[i] = names[j] THEN Fail("DuplicateColumn")
  ELSE Ok([i \in 1..Len(df) |-> alias(df[i], names[i])])

nHead(df, n) ==
  Ok([i \in 1..Len(df) |->
        [df[i] EXCEPT !.values = SubSeq(df[i].values, 1, IF n < Height(df) THEN n ELSE Height(df))]])

nSlice(df, offset, length) ==
  LET lo == IF offset < Height(df) THEN offset ELSE Height(df)
      hi == IF lo + length < Height(df) THEN lo + length ELSE Height(df)
  IN  Ok([i \in 1..Len(df) |-> [df[i] EXCEPT !.values = SubSeq(df[i].values, lo + 1, hi)]])

(***************************************************************************)
(* Native engine: row order (sort, unique, filter)                         *)
(***************************************************************************)
Col(df, name) == df[indexOf(Columns(df), name) + 1].values

\* the rows `rows` (a sequence of row numbers) of df, in that order
Take(df, rows) ==
  [c \in 1..Len(df) |-> [df[c] EXCEPT !.values = [i \in 1..Len(rows) |-> df[c].values[rows[i]]]]]

Perms(S) == {p \in [1..Cardinality(S) -> S] : \A i, j \in 1..Cardinality(S) : i # j => p[i] # p[j]}

\* x sorts strictly before y in one key column
Before(x, y, descending, nulls_last) ==
  IF x = Null /\ y = Null THEN FALSE
  ELSE IF x = Null THEN ~nulls_last
  ELSE IF y = Null THEN nulls_last
  ELSE IF descending THEN x > y ELSE x < y

KeyEq(df, by, i, j) == \A k \in 1..Len(by) : Col(df, by[k])[i] = Col(df, by[k])[j]

\* row i sorts strictly before row j, lexicographically over the columns `by`
RowBefore(df, by, i, j, descending, nulls_last) ==
  \E k \in 1..Len(by) :
    /\ \A m \in 1..(k - 1) : Col(df, by[m])[i] = Col(df, by[m])[j]
    /\ Before(Col(df, by[k])[i], Col(df, by[k])[j], descending, nulls_last)

\* the row orders a sort may return: every order consistent with the keys;
\* with maintain_order only the one that keeps ties in their original order
SortOrders(df, by, descending, nulls_last, maintain_order) ==
  {p \in Perms(1..Height(df)) :
     /\ \A a, b \in 1..Height(df) :
          a < b => ~RowBefore(df, by, p[b], p[a], descending, nulls_last)
     /\ maintain_order =>
          \A a, b \in 1..Height(df) : (a < b /\ KeyEq(df, by, p[a], p[b])) => p[a] < p[b]}

nSort(df, by, descending, nulls_last, maintain_order) ==
  IF \E k \in 1..Len(by) : by[k] \notin NameSet(df) THEN {Fail("ColumnNotFound")}
  ELSE {Ok(Take(df, p)) : p \in SortOrders(df, by, descending, nulls_last, maintain_order)}

\* LazyDataFrame.sort(by, descending, maintain_order).collectSync(): nulls last
lazySort(df, by, descending, maintain_order) == nSort(df, by, descending, TRUE, maintain_order)

\* the rows unique keeps: per class of rows equal over `subset`, the first or the last
Survivors(df, subset, keep) ==
  {i \in 1..Height(df) :
     IF keep = "last" THEN \A j \in (i + 1)..Height(df) : ~KeyEq(df, subset, i, j)
     ELSE \A j \in 1..(i - 1) : ~KeyEq(df, subset, i, j)}

\* subset: <<>> (undefined: all columns) or <<v>> with v the value passed,
\* [str |-> TRUE, names |-> <<name>>] a string, [str |-> FALSE, names |-> array] an array;
\* the engine takes a list of names and rejects a value that is not an array
nUnique(df, maintainOrder, subset, keep) ==
  LET cols == IF Len(subset) = 0 THEN Columns(df) ELSE subset[1].names
  IN  IF Len(subset) > 0 /\ subset[1].str THEN {Fail("InvalidArgument")}
      ELSE IF \E k \in 1..Len(cols) : cols[k] \notin NameSet(df) THEN {Fail("ColumnNotFound")}
      ELSE {Ok(Take(df, p)) :
              p \in {q \in Perms(Survivors(df, cols, keep)) :
                       maintainOrder => \A a, b \in 1..Len(q) : a < b => q[a] < q[b]}}

\* LazyDataFrame.filter(predicate).collectSync(); the predicate is column = value
RECURSIVE Matching(_, _, _)
Matching(vals, v, i) ==
  IF i > Len(vals) THEN <<>>
  ELSE (IF vals[i] = v THEN <<i>> ELSE <<>>) \o Matching(vals, v, i + 1)

lazyFilter(df, predicate) ==
  IF predicate.col \notin NameSet(df) THEN Fail("ColumnNotFound")
  ELSE Ok(Take(df, Matching(Col(df, predicate.col), predicate.val, 1)))

(***************************************************************************)
(* Native engine: joins                                                    *)
(***************************************************************************)
RECURSIVE Concat(_, _)
Concat(seqs, i) == IF i > Len(seqs) THEN <<>> ELSE seqs[i] \o Concat(seqs, i + 1)

\* the key tuple of every row
KeyRows(df, on) == [i \in 1..Height(df) |-> [k \in 1..Len(on) |-> Col(df, on[k])[i]]]

\* the right rows matching left row i, ascending
RightMatches(left, right, leftOn, rightOn, i) ==
  Matching(KeyRows(right, rightOn), KeyRows(left, leftOn)[i], 1)

\* right rows no left row matches, ascending
RECURSIVE Unmatched(_, _, _)
Unmatched(rightKeys, leftKeys, j) ==
  IF j > Len(rightKeys) THEN <<>>
  ELSE (IF \E i \in 1..Len(leftKeys) : leftKeys[i] = rightKeys[j] THEN <<>> ELSE <<<<0, j>>>>)
         \o Unmatched(rightKeys, leftKeys, j + 1)

\* matched row-index pairs <<left row, right row>>; 0 is the absent side
JoinPairs(left, right, leftOn, rightOn, how) ==
  LET per(i) ==
        LET m == IF how = "cross" THEN [j \in 1..Height(right) |-> j]
                 ELSE RightMatches(left, right, leftOn, rightOn, i)
        IN  IF Len(m) = 0 /\ how \in {"left", "outer"} THEN <<<<i, 0>>>>
            ELSE [x \in 1..Len(m) |-> <<i, m[x]>>]
      fromLeft == Concat([i \in 1..Height(left) |-> per(i)], 1)
  IN  IF how = "outer"
      THEN fromLeft \o Unmatched(KeyRows(right, rightOn), KeyRows(left, leftOn), 1)
      ELSE fromLeft

\* the joined frame: the left columns (a key column takes the right key where the left
\* side is absent), then the right columns that are not keys, suffixed on a name clash
JoinFrame(left, right, pairs, leftOn, rightOn, suffix) ==
  LET keyPos(name) == indexOf(leftOn, name) + 1
      leftCol(c) ==
        [c EXCEPT !.values =
           [p \in 1..Len(pairs) |->
              IF pairs[p][1] # 0 THEN c.values[pairs[p][1]]
              ELSE IF keyPos(c.name) > 0 THEN Col(right, rightOn[keyPos(c.name)])[pairs[p][2]]
              ELSE Null]]
      rightCol(c) ==
        [name |-> IF c.name \in NameSet(left) THEN c.name \o suffix ELSE c.name,
         dtype |-> c.dtype,
         values |-> [p \in 1..Len(pairs) |->
                       IF pairs[p][2] # 0 THEN c.values[pairs[p][2]] ELSE Null]]
      rest == SelectSeq(right, LAMBDA c : indexOf(rightOn, c.name) < 0)
  IN  [i \in 1..Len(left) |-> leftCol(left[i])] \o [i \in 1..Len(rest) |-> rightCol(rest[i])]

\* leftOn, rightOn: optional (<<>> is undefined, <<names>> the key columns)
nJoin(left, right, leftOn, rightOn, how, suffix) ==
  LET sfx == IF Len(suffix) = 0 THEN "_right" ELSE suffix[1]
  IN  IF how = "cross"
      THEN Ok(JoinFrame(left, right, JoinPairs(left, right, <<>>, <<>>, how), <<>>, <<>>, sfx))
      ELSE IF Len(leftOn) = 0 \/ Len(rightOn) = 0 THEN Fail("MissingJoinKey")
      ELSE IF Len(leftOn[1]) # Len(rightOn[1]) THEN Fail("KeyCountMismatch")
      ELSE IF \/ \E k \in 1..Len(leftOn[1]) : leftOn[1][k] \notin NameSet(left)
              \/ \E k \in 1..Len(rightOn[1]) : rightOn[1][k] \notin NameSet(right)
           THEN Fail("ColumnNotFound")
      ELSE Ok(JoinFrame(left, right, JoinPairs(left, right, leftOn[1], rightOn[1], how),
                        leftOn[1], rightOn[1], sfx))

\* LazyDataFrame.joinAsof(other, options).collectSync()
\* options: [on |-> key column of both sides, by |-> group columns of both sides,
\*           strategy, tolerance: optional]
SameGroup(left, right, by, i, j) ==
  \A k \in 1..Len(by) : Col(left, by[k])[i] = Col(right, by[k])[j]

\* scanning down from right row j: the first row of left row i's group with key <= its key
RECURSIVE ScanBackward(_, _, _, _, _)
ScanBackward(left, right, options, i, j) ==
  IF j = 0 THEN 0
  ELSE IF /\ SameGroup(left, right, options.by, i, j)
          /\ Col(right, options.on)[j] <= Col(left, options.on)[i]
       THEN j
  ELSE ScanBackward(left, right, options, i, j - 1)

\* scanning up from right row j: the first row of left row i's group with key >= its key
RECURSIVE ScanForward(_, _, _, _, _)
ScanForward(left, right, options, i, j) ==
  IF j > Height(right) THEN 0
  ELSE IF /\ SameGroup(left, right, options.by, i, j)
          /\ Col(right, options.on)[j] >= Col(left, options.on)[i]
       THEN j
  ELSE ScanForward(left, right, options, i, j + 1)

Abs(x) == IF x < 0 THEN 0 - x ELSE x

\* the right row joined to left row i; 0: none
AsofMatch(left, right, options, i) ==
  LET j == IF Default(options.strategy, "backward") = "forward"
           THEN ScanForward(left, right, options, i, 1)
           ELSE ScanBackward(left, right, options, i, Height(right))
  IN  IF j = 0 THEN 0
      ELSE IF /\ Len(options.tolerance) > 0
              /\ Abs(Col(left, options.on)[i] - Col(right, options.on)[j]) > options.tolerance[1]
           THEN 0
      ELSE j

lazyJoinAsof(left, right, options) ==
  IF \E n \in {options.on} \cup {options.by[k] : k \in 1..Len(options.by)} :
       n \notin NameSet(left) \/ n \notin NameSet(right)
  THEN Fail("ColumnNotFound")
  ELSE Ok(JoinFrame(left, right, [i \in 1..Height(left) |-> <<i, AsofMatch(left, right, options, i)>>],
                    <<options.on>> \o options.by, <<options.on>> \o options.by, "_right"))

(***************************************************************************)
(* Native engine: grouping and reductions                                  *)
(***************************************************************************)
RECURSIVE SeqSum(_)
SeqSum(vals) == IF Len(vals) = 0 THEN 0 ELSE Head(vals) + SeqSum(Tail(vals))

NonNull(vals) == SelectSeq(vals, LAMBDA v : v # Null)

Row(df, i) == [c \in 1..Width(df) |-> df[c].values[i]]

\* the rows that open a group: no earlier row has the same key tuple
GroupHeads(df, by) == {i \in 1..Height(df) : \A j \in 1..(i - 1) : ~KeyEq(df, by, i, j)}

\* the elements of a set of numbers in ascending order
RECURSIVE SortedSeq(_)
SortedSeq(S) ==
  IF S = {} THEN <<>>
  ELSE LET m == CHOOSE x \in S : \A y \in S : x <= y IN <<m>> \o SortedSeq(S \ {m})

\* GroupBy(df, by).count(): the key columns and a column `count`, one row per group
nGroupByCount(df, by) ==
  IF \E k \in 1..Len(by) : by[k] \notin NameSet(df) THEN Fail("ColumnNotFound")
  ELSE LET heads == SortedSeq(GroupHeads(df, by))
           keyCol(k) == Series(by[k], [g \in 1..Len(heads) |-> Col(df, by[k])[heads[g]]], "Int64")
           counts == [g \in 1..Len(heads) |->
                        Cardinality({i \in 1..Height(df) : KeyEq(df, by, i, heads[g])})]
       IN  Ok([k \in 1..Len(by) |-> keyCol(k)] \o <<Series("count", counts, "UInt32")>>)

\* reduction of a sequence of cells, nulls ignored; of no value at all: 0 (sum), null (mean)
SumOf(vals) == SeqSum(NonNull(vals))

MeanOf(vals) == IF Len(NonNull(vals)) = 0 THEN Null ELSE SeqSum(NonNull(vals)) \div Len(NonNull(vals))

\* _df.hsum(nullStrategy), _df.hmean(nullStrategy): one value per row
nHsum(df, nullStrategy) ==
  Series("sum", [i \in 1..Height(df) |->
                   IF nullStrategy = "propagate" /\ \E c \in 1..Width(df) : Row(df, i)[c] = Null
                   THEN Null ELSE SumOf(Row(df, i))], "Int64")

nHmean(df, nullStrategy) ==
  Series("mean", [i \in 1..Height(df) |->
                    IF nullStrategy = "propagate" /\ \E c \in 1..Width(df) : Row(df, i)[c] = Null
                    THEN Null ELSE MeanOf(Row(df, i))], "Float64")

\* LazyDataFrame.sum().collectSync(), .mean().collectSync(): one row of column aggregates
lazySum(df) == [c \in 1..Width(df) |-> [df[c] EXCEPT !.values = <<SumOf(df[c].values)>>]]

lazyMean(df) ==
  [c \in 1..Width(df) |-> Series(df[c].name, <<MeanOf(df[c].values)>>, "Float64")]

(***************************************************************************)
(* Native engine: transpose                                                *)
(***************************************************************************)
DigitStr(n) == <<"0", "1", "2", "3", "4", "5", "6", "7", "8", "9">>[n + 1]

\* _df.transpose(keep_names_as, names): one value column per row of df, named by `names`
\* and, where `names` ends, column_<j>; keep_names_as adds a first column of the old names
nTranspose(df, keep_names_as, names) ==
  LET given == IF Len(names) = 0 THEN <<>> ELSE names[1]
      valueCol(j) ==
        Series(IF j <= Len(given) THEN given[j] ELSE "column_" \o DigitStr(j - 1),
               Row(df, j), "Int64")
      header == IF Len(keep_names_as) = 0 THEN <<>>
                ELSE <<Series(keep_names_as[1], Columns(df), "Utf8")>>
      out == header \o [j \in 1..Height(df) |-> valueCol(j)]
  IN  IF Len(given) > Height(df) THEN Fail("InvalidArgument")
      ELSE IF \E i, j \in 1..Len(out) : i # j /\ out[i].name = out[j].name
           THEN Fail("DuplicateColumn")
      ELSE Ok(out)

(***************************************************************************)
(* Native engine: melt and pivot                                           *)
(***************************************************************************)
\* _df.melt(ids, values); ids, values: optional lists of names.  The long frame has the id
\* columns, `variable` and `value`; its rows go by original row, then by value column
nMelt(df, ids, values) ==
  LET idn == IF Len(ids) = 0 THEN <<>> ELSE ids[1]
      vn == IF Len(values) = 0
            THEN SelectSeq(Columns(df), LAMBDA n : indexOf(idn, n) < 0)
            ELSE values[1]
      n == Height(df) * Len(vn)
      src(r) == ((r - 1) \div Len(vn)) + 1
      var(r) == ((r - 1) % Len(vn)) + 1
  IN  IF \E k \in 1..Len(idn) : idn[k] \notin NameSet(df) THEN Fail("ColumnNotFound")
      ELSE IF \E k \in 1..Len(vn) : vn[k] \notin NameSet(df) THEN Fail("ColumnNotFound")
      ELSE Ok([c \in 1..Len(idn) |->
                 Series(idn[c], [r \in 1..n |-> Col(df, idn[c])[src(r)]], "Int64")]
              \o <<Series("variable", [r \in 1..n |-> vn[var(r)]], "Utf8"),
                   Series("value", [r \in 1..n |-> Col(df, vn[var(r)])[src(r)]], "Int64")>>)

\* the values of a sequence of numbers in ascending order
Ordered(vals) ==
  LET p == CHOOSE q \in Perms(1..Len(vals)) :
             \A i, j \in 1..Len(vals) : i < j => vals[q[i]] <= vals[q[j]]
  IN  [i \in 1..Len(vals) |-> vals[p[i]]]

MedianOf(vals) ==
  LET o == Ordered(NonNull(vals))
      n == Len(o)
  IN  IF n = 0 THEN Null
      ELSE IF n % 2 = 1 THEN o[(n + 1) \div 2]
      ELSE (o[n \div 2] + o[(n \div 2) + 1]) \div 2

\* element().<agg>() over the cells of one (index, column) combination, in row order
Aggregate(agg, cells) ==
  IF Len(cells) = 0 THEN Null
  ELSE IF agg = "first" THEN cells[1]
  ELSE IF agg = "last" THEN cells[Len(cells)]
  ELSE IF agg = "count" THEN Len(cells)
  ELSE IF agg = "sum" THEN SumOf(cells)
  ELSE IF agg = "mean" THEN MeanOf(cells)
  ELSE IF agg = "median" THEN MedianOf(cells)
  ELSE IF Len(NonNull(cells)) = 0 THEN Null
  ELSE IF agg = "min" THEN Ordered(NonNull(cells))[1]
  ELSE Ordered(NonNull(cells))[Len(NonNull(cells))]

\* the alphabetical rank of the names that become pivot headers
NameRank(n) == indexOf(<<"v", "w", "x", "y", "z">>, n)

\* _df.pivotExpr(values, index, columns, fn, maintainOrder, sortColumns, separator), for
\* one values column and one columns column; fn: [kind |-> "expr", agg |-> name] is an
\* expression, anything else is rejected.  The result is a set: without maintainOrder the
\* order of the rows is not fixed
nPivotExpr(df, values, index, columns, fn, maintainOrder, sortColumns, separator) ==
  LET heads == SortedSeq(GroupHeads(df, index))
      found == SortedSeq(GroupHeads(df, columns))
      disc == [h \in 1..Len(found) |-> Col(df, columns[1])[found[h]]]
      hdrs == IF sortColumns
              THEN LET p == CHOOSE q \in Perms(1..Len(disc)) :
                              \A i, j \in 1..Len(disc) :
                                i < j => NameRank(disc[q[i]]) <= NameRank(disc[q[j]])
                   IN  [i \in 1..Len(disc) |-> disc[p[i]]]
              ELSE disc
      cells(g, v) ==
        LET rows == SortedSeq({i \in 1..Height(df) :
                                 KeyEq(df, index, i, g) /\ Col(df, columns[1])[i] = v})
        IN  [x \in 1..Len(rows) |-> Col(df, values[1])[rows[x]]]
      frame(q) ==
        [k \in 1..Len(index) |->
           Series(index[k], [g \in 1..Len(q) |-> Col(df, index[k])[q[g]]], "Int64")]
        \o [h \in 1..Len(hdrs) |->
              Series(hdrs[h], [g \in 1..Len(q) |-> Aggregate(fn.agg, cells(q[g], hdrs[h]))],
                     "Int64")]
  IN  IF fn.kind # "expr" THEN {Fail("InvalidArgument")}
      ELSE IF \E n \in {values[k] : k \in 1..Len(values)} \cup {index[k] : k \in 1..Len(index)}
                         \cup {columns[k] : k \in 1..Len(columns)} : n \notin NameSet(df)
           THEN {Fail("ColumnNotFound")}
      ELSE {Ok(frame(q)) :
              q \in {p \in Perms({heads[g] : g \in 1..Len(heads)}) :
                       maintainOrder => \A a, b \in 1..Len(p) : a < b => p[a] < p[b]}}

(***************************************************************************)
(* The heap of native frames and the wrapper's result records              *)
(***************************************************************************)
ObjIds == {1, 2, 3}

Handles == {"d1", "d2"}

FreshId(st) == CHOOSE n \in ObjIds : n \notin DOMAIN st /\ \A m \in ObjIds : m < n => m \in DOMAIN st

\* objects no handle refers to are garbage
Collect(st, p) == [i \in ({p[h] : h \in Handles} \cap DOMAIN st) |-> st[i]]

\* wrap(method, ...): a new DataFrame around the frame the native call returned
\* applied: for the calls that loop over entries, how many were applied
wrap(st, r) ==
  [st |-> st, err |-> r.err, out |-> IF r.err = NoErr THEN <<r.df>> ELSE <<>>, applied |-> 0]

\* a native call that mutates object id in place; a failing call throws
unwrapMut(st, id, r) ==
  [st |-> IF r.err = NoErr THEN [st EXCEPT ![id] = r.df] ELSE st, err |-> r.err, out |-> <<>>,
   applied |-> 0]

(***************************************************************************)
(* DataFrame methods (src/polars/dataframe.ts)                             *)
(***************************************************************************)
cloneAliased(st, id) == [st |-> st, id |-> id]

clone(st, id) == [st |-> st @@ (FreshId(st) :> st[id]), id |-> FreshId(st)]

withColumn(st, id, column) == wrap(st, nWithColumn(st[id], column))

hstackInPlaceIgnored(st, id, columns, inPlace) == wrap(st, nHstack(st[id], columns))

hstack(st, id, columns, inPlace) ==
  IF inPlace THEN unwrapMut(st, id, nHstack(st[id], columns))
  ELSE wrap(st, nHstack(st[id], columns))

vstack(st, id, other) == wrap(st, nVstack(st[id], other))

insertAtIdx(st, id, idx, series) == unwrapMut(st, id, nInsertAtIdx(st[id], idx, series))

replaceAtIdx(st, id, index, newColumn) == unwrapMut(st, id, nReplaceAtIdx(st[id], index, newColumn))

setColumns(st, id, names) == unwrapMut(st, id, nSetColumns(st[id], names))

head(st, id, length) == wrap(st, nHead(st[id], length))

slice(st, id, offset, length) == wrap(st, nSlice(st[id], offset, length))

\* the loop of rename: one native rename per entry of the mapping, in entry order
RECURSIVE renameEntries(_, _, _, _)
renameEntries(st, id, entries, i) ==
  IF i > Len(entries) THEN [st |-> st, err |-> NoErr, applied |-> i - 1]
  ELSE LET r == nRename(st[id], entries[i][1], entries[i][2])
       IN  IF r.err # NoErr THEN [st |-> st, err |-> r.err, applied |-> i - 1]
           ELSE renameEntries([st EXCEPT ![id] = r.df], id, entries, i + 1)

renameOnReceiver(st, id, mapping) ==
  LET r == renameEntries(st, id, mapping, 1)
  IN  [st |-> r.st, err |-> r.err, out |-> IF r.err = NoErr THEN <<r.st[id]>> ELSE <<>>,
       applied |-> r.applied]

rename(st, id, mapping) ==
  LET c == clone(st, id)
      r == renameEntries(c.st, c.id, mapping, 1)
  IN  [st |-> r.st, err |-> r.err, out |-> IF r.err = NoErr THEN <<r.st[c.id]>> ELSE <<>>,
       applied |-> r.applied]

withColumnRenamed(st, id, existing, replacement) == rename(st, id, <<<<existing, replacement>>>>)

\* the loop of drop: one native dropInPlace per name
RECURSIVE dropEntries(_, _, _, _)
dropEntries(st, id, names, i) ==
  IF i > Len(names) THEN [st |-> st, err |-> NoErr, applied |-> i - 1]
  ELSE LET r == nDrop(st[id], names[i])
       IN  IF r.err # NoErr THEN [st |-> st, err |-> r.err, applied |-> i - 1]
           ELSE dropEntries([st EXCEPT ![id] = r.df], id, names, i + 1)

\* the clone is left out: the names are dropped in place on the receiver
dropOnReceiver(st, id, form, names) ==
  IF form # "array" /\ Len(names) = 1
  THEN wrap(st, nDrop(st[id], names[1]))
  ELSE LET r == dropEntries(st, id, names, 1)
       IN  [st |-> r.st, err |-> r.err, out |-> IF r.err = NoErr THEN <<r.st[id]>> ELSE <<>>,
            applied |-> r.applied]

\* form: "single" drop(name), "array" drop([names]), "variadic" drop(n1, n2, ...)
drop(st, id, form, names) ==
  IF form # "array" /\ Len(names) = 1
  THEN wrap(st, nDrop(st[id], names[1]))
  ELSE LET c == clone(st, id)
           r == dropEntries(c.st, c.id, names, 1)
       IN  [st |-> r.st, err |-> r.err, out |-> IF r.err = NoErr THEN <<r.st[c.id]>> ELSE <<>>,
            applied |-> r.applied]

\* Proxy set trap: value is [kind |-> "series", s |-> Series] or [kind |-> "names", names |-> ...]
ProxySet(st, id, prop, value) ==
  IF value.kind = "series" /\ indexOf(Columns(st[id]), prop) >= 0
  THEN replaceAtIdx(st, id, indexOf(Columns(st[id]), prop), alias(value.s, prop))
  ELSE IF prop = "columns"
       THEN IF value.kind = "names" THEN setColumns(st, id, value.names)
            ELSE [st |-> st, err |-> "InvalidArgument", out |-> <<>>, applied |-> 0]
       ELSE [st |-> st, err |-> NoErr, out |-> <<>>, applied |-> 0]

\* an optional argument: <<>> is undefined, <<v>> is the value v
wrapAll(st, rs) == {wrap(st, r) : r \in rs}

\* arg: [kind |-> "name", by |-> <<column name>>], [kind |-> "array", by |-> names],
\* or [kind |-> "options", by |-> one of the former, descending, maintain_order]
sortPositional(st, id, arg, descending, maintain_order) ==
  IF arg.kind = "array" THEN wrapAll(st, lazySort(st[id], arg.by, descending, maintain_order))
  ELSE wrapAll(st, nSort(st[id], arg.by, descending, TRUE, maintain_order))

sortDescendingDropped(st, id, arg, descending, maintain_order) ==
  IF arg.kind = "options"
  THEN sortPositional(st, id, arg.by, FALSE, FALSE)
  ELSE sortPositional(st, id, arg, descending, maintain_order)

sort(st, id, arg, descending, maintain_order) ==
  IF arg.kind = "options"
  THEN sortPositional(st, id, arg.by, Default(arg.descending, FALSE), FALSE)
  ELSE sortPositional(st, id, arg, descending, maintain_order)

\* opts: [kind |-> "bool", v |-> maintainOrder] or
\* [kind |-> "options", maintainOrder, subset, keep: optional]; subset: optional
uniqueMaintainOrderDropped(st, id, opts, subset, keep) ==
  IF opts.kind = "bool" THEN wrapAll(st, nUnique(st[id], opts.v, subset, keep))
  ELSE wrapAll(st, nUnique(st[id], FALSE,
                            IF Len(opts.subset) = 0 THEN <<>>
                            ELSE <<[str |-> FALSE, names |-> opts.subset[1].names]>>,
                            Default(opts.keep, keep)))

\* the options form replaces opts.subset by [opts.subset].flat(3), an array
unique(st, id, opts, subset, keep) ==
  IF opts.kind = "bool" THEN wrapAll(st, nUnique(st[id], opts.v, subset, keep))
  ELSE wrapAll(st, nUnique(st[id], Default(opts.maintainOrder, FALSE),
                            IF Len(opts.subset) = 0 THEN <<>>
                            ELSE <<[str |-> FALSE, names |-> opts.subset[1].names]>>,
                            Default(opts.keep, keep)))

filter(st, id, predicate) == wrap(st, lazyFilter(st[id], predicate))

(***************************************************************************)
(* Construction                                                            *)
(***************************************************************************)
\* new pli.JsDataFrame(columns): the columns must have one length
nNew(columns) ==
  IF \E i, j \in 1..Len(columns) : Len(columns[i].values) # Len(columns[j].values)
  THEN Fail("LengthMismatch")
  ELSE Ok(columns)

\* obj: the entries of the data object, <<name, values, dtype>> each; an object's keys are distinct
objToDF(obj) == nNew([i \in 1..Len(obj) |-> Series(obj[i][1], obj[i][2], obj[i][3])])

(***************************************************************************)
(* Inputs of the frame machine                                             *)
(***************************************************************************)
FrameNames == {"a", "b"}

\* a name no frame ever has
Missing == "zz"

ConstVals(h, c) == [i \in 1..h |-> c]

SeriesPool ==
  {Series(n, ConstVals(h, IF n = "a" THEN 0 ELSE 1), "Int64") : n \in FrameNames, h \in 0..MaxHeight}
    \cup {Series("a", ConstVals(1, 1), "Float64")}

\* the Series the in-place mutators are called with
MutPool ==
  { Series("a", <<0>>, "Int64"), Series("b", <<1>>, "Int64"),
    Series("a", <<1>>, "Float64"), Series("b", <<1, 1>>, "Int64") }

DataPool ==
  { <<>>,
    <<<<"a", <<0>>, "Int64">>>>,
    <<<<"a", <<1>>, "Int64">>, <<"b", <<0>>, "Int64">>>>,
    <<<<"b", <<0>>, "Float64">>, <<"a", <<1>>, "Int64">>>>,
    <<<<"a", <<0>>, "Int64">>, <<"b", <<0, 1>>, "Int64">>>> }

InitFrames == {objToDF(d).df : d \in {e \in DataPool : objToDF(e).err = NoErr}}

SeriesLists ==
  {<<s>> : s \in MutPool} \cup {<<s, t>> : s, t \in {x \in MutPool : x.dtype = "Int64"}}

Mappings ==
  { <<<<"a", "b">>>>, <<<<"b", "a">>>>, <<<<Missing, "a">>>>,
    <<<<"a", "b">>, <<"b", "a">>>>, <<<<"b", "a">>, <<Missing, "b">>>>,
    <<<<"a", "a">>, <<"b", "b">>>> }

NameLists == {<<n>> : n \in FrameNames} \cup {<<n, m>> : n, m \in FrameNames}

DropLists == {<<n>> : n \in FrameNames \cup {Missing}} \cup {<<"a", "b">>, <<"b", Missing>>, <<"a", "a">>}

SortArgs ==
  { [kind |-> "name", by |-> <<"a">>], [kind |-> "array", by |-> <<"b", "a">>],
    [kind |-> "options", by |-> [kind |-> "name", by |-> <<"b">>],
     descending |-> <<TRUE>>, maintain_order |-> <<TRUE>>] }

UniqueOpts ==
  { [kind |-> "bool", v |-> FALSE],
    [kind |-> "options", maintainOrder |-> <<TRUE>>, subset |-> <<>>, keep |-> <<"last">>] }

Predicates == {[col |-> "a", val |-> 0], [col |-> "b", val |-> 1], [col |-> Missing, val |-> 0]}

(***************************************************************************)
(* The frame machine: calls through the handles                            *)
(***************************************************************************)
Live(h) == ptr[h] # 0

Frame(h) == store[ptr[h]]

\* the call returned record r; with `assign` the caller binds the returned frame to h
Returned(h, op, r, assign) ==
  /\ IF assign /\ r.err = NoErr /\ Len(r.out) = 1
     THEN LET st0 == Collect(r.st, [ptr EXCEPT ![h] = 0])
              n == FreshId(st0)
          IN  /\ ptr' = [ptr EXCEPT ![h] = n]
              /\ store' = st0 @@ (n :> r.out[1])
     ELSE /\ store' = Collect(r.st, ptr)
          /\ UNCHANGED ptr
  /\ last' = [op |-> op, h |-> h, err |-> r.err, applied |-> r.applied,
              assigned |-> assign /\ r.err = NoErr /\ Len(r.out) = 1]

WithColumnCall(h) ==
  \E s \in SeriesPool, assign \in BOOLEAN :
    Returned(h, "withColumn", withColumn(store, ptr[h], s), assign)

HstackCall(h) ==
  \E cols \in SeriesLists, inPlace \in BOOLEAN, assign \in BOOLEAN :
    /\ inPlace => ~assign
    /\ Returned(h, IF inPlace THEN "hstackMut" ELSE "hstack",
                hstack(store, ptr[h], cols, inPlace), assign)

VstackCall(h) ==
  \E other \in InitFrames \cup {Frame(h)}, assign \in BOOLEAN :
    /\ Height(Frame(h)) + Height(other) <= MaxHeight
    /\ Returned(h, "vstack", vstack(store, ptr[h], other), assign)

InsertAtIdxCall(h) ==
  \E idx \in 0..2, s \in MutPool :
    Returned(h, "insertAtIdx", insertAtIdx(store, ptr[h], idx, s), FALSE)

ReplaceAtIdxCall(h) ==
  \E idx \in 0..2, s \in MutPool :
    Returned(h, "replaceAtIdx", replaceAtIdx(store, ptr[h], idx, s), FALSE)

SetColumnsCall(h) ==
  \E names \in NameLists :
    Returned(h, "setColumns", ProxySet(store, ptr[h], "columns", [kind |-> "names", names |-> names]), FALSE)

SetPropertyCall(h) ==
  \E prop \in FrameNames \cup {Missing}, s \in MutPool :
    Returned(h, "setProperty", ProxySet(store, ptr[h], prop, [kind |-> "series", s |-> s]), FALSE)

RenameCall(h) ==
  \E mapping \in Mappings, assign \in BOOLEAN :
    Returned(h, "rename", rename(store, ptr[h], mapping), assign)

WithColumnRenamedCall(h) ==
  \E existing \in {"a", Missing}, replacement \in {"a", "b"} :
    Returned(h, "withColumnRenamed", withColumnRenamed(store, ptr[h], existing, replacement), FALSE)

DropCall(h) ==
  \E form \in {"single", "array", "variadic"}, names \in DropLists, assign \in BOOLEAN :
    /\ form = "single" => Len(names) = 1
    /\ form = "variadic" => Len(names) > 1
    /\ Returned(h, "drop", drop(store, ptr[h], form, names), assign)

HeadCall(h) ==
  \E n \in 0..1 : Returned(h, "head", head(store, ptr[h], n), FALSE)

SliceCall(h) ==
  \E offset \in 0..1 : Returned(h, "slice", slice(store, ptr[h], offset, 1), FALSE)

SortCall(h) ==
  \E arg \in SortArgs, descending \in BOOLEAN :
    \E r \in sort(store, ptr[h], arg, descending, FALSE) :
      Returned(h, "sort", r, FALSE)

UniqueCall(h) ==
  \E opts \in UniqueOpts :
    \E r \in unique(store, ptr[h], opts, <<>>, "first") :
      Returned(h, "unique", r, FALSE)

FilterCall(h) ==
  \E predicate \in Predicates :
    Returned(h, "filter", filter(store, ptr[h], predicate), FALSE)

NoCall == [op |-> "new", h |-> "d1", err |-> NoErr, applied |-> 0, assigned |-> FALSE]

Init ==
  /\ \E df \in InitFrames : store = (1 :> df)
  /\ ptr = [d1 |-> 1, d2 |-> 0]
  /\ last = NoCall

Next ==
  \/ WithColumnCall("d1")
  \/ HstackCall("d1")
  \/ VstackCall("d1")
  \/ InsertAtIdxCall("d1")
  \/ ReplaceAtIdxCall("d1")
  \/ SetColumnsCall("d1")
  \/ SetPropertyCall("d1")
  \/ RenameCall("d1")
  \/ WithColumnRenamedCall("d1")
  \/ DropCall("d1")
  \/ HeadCall("d1")
  \/ SliceCall("d1")
  \/ SortCall("d1")
  \/ UniqueCall("d1")
  \/ FilterCall("d1")

Spec == Init /\ [][Next]_vars

(***************************************************************************)
(* Two handles: d2 = d1.clone(), then in-place mutators through either     *)
(***************************************************************************)
CloneCall ==
  /\ ~Live("d2")
  /\ LET c == clone(store, ptr["d1"])
     IN  /\ ptr' = [ptr EXCEPT !["d2"] = c.id]
         /\ store' = Collect(c.st, [ptr EXCEPT !["d2"] = c.id])
  /\ last' = [op |-> "clone", h |-> "d1", err |-> NoErr, applied |-> 0, assigned |-> TRUE]

HstackMutCall(h) ==
  \E cols \in SeriesLists :
    Returned(h, "hstackMut", hstack(store, ptr[h], cols, TRUE), FALSE)

NextClone ==
  \/ CloneCall
  \/ \E h \in Handles : Live(h) /\ InsertAtIdxCall(h)
  \/ \E h \in Handles : Live(h) /\ ReplaceAtIdxCall(h)
  \/ \E h \in Handles : Live(h) /\ SetColumnsCall(h)
  \/ \E h \in Handles : Live(h) /\ SetPropertyCall(h)
  \/ \E h \in Handles : Live(h) /\ HstackMutCall(h)

SpecClone == Init /\ [][NextClone]_vars

(***************************************************************************)
(* Claims about the frame machine                                          *)
(***************************************************************************)
WellFormed(df) ==
  /\ \A i \in 1..Len(df) : Len(df[i].values) = Height(df)
  /\ \A i, j \in 1..Len(df) : i # j => df[i].name # df[j].name
  /\ Width(df) = Len(Columns(df))

\* C1: every frame reached by construction and any sequence of withColumn, hstack,
\* vstack, insertAtIdx, replaceAtIdx, rename, drop and Series assignment to a column
\* property has columns of one length, pairwise distinct names, and width = #columns
C1_ShapeInvariants == \A id \in DOMAIN store : WellFormed(store[id])

C1_Witness ==
  /\ last.op = "setProperty" /\ last.err = NoErr
  /\ Width(Frame("d1")) = 2 /\ Height(Frame("d1")) = 2

InPlaceOps == {"insertAtIdx", "replaceAtIdx", "setColumns", "setProperty", "hstackMut"}

Other(h) == IF h = "d1" THEN "d2" ELSE "d1"

\* C2: after d2 = d1.clone(), an in-place mutation through one handle leaves the
\* names, dtypes and values seen through the other handle unchanged
C2_CloneIndependent ==
  [][\A h \in Handles :
       (Live("d1") /\ Live("d2") /\ last'.h = h /\ last'.op \in InPlaceOps)
         => store'[ptr'[Other(h)]] = store[ptr[Other(h)]]]_vars

C2_Witness ==
  /\ Live("d2") /\ last.h = "d2" /\ last.op = "insertAtIdx" /\ last.err = NoErr
  /\ Frame("d1") # Frame("d2")

ReturningOps ==
  {"drop", "rename", "withColumnRenamed", "withColumn", "sort", "unique", "filter",
   "head", "slice", "hstack"}

\* C3: drop, rename, withColumnRenamed, withColumn, sort, unique, filter, head, slice
\* and hstack (not in place) leave the receiver's frame as it was, whether the call
\* succeeds or fails, also when a later entry of rename or drop fails
C3_ReceiverUntouched ==
  [][(last'.op \in ReturningOps /\ ~last'.assigned) => store' = store]_vars

C3_Witness ==
  /\ last.op = "rename" /\ last.err # NoErr /\ last.applied = 1
  /\ Width(Frame("d1")) = 1

(***************************************************************************)
(* rename as a function of the frame and the mapping                       *)
(***************************************************************************)
RenameNames == {"a", "b", "c"}

\* frames of one row whose column i holds the value i
RenameFrames ==
  {[i \in 1..Len(names) |-> Series(names[i], <<i>>, "Int64")] :
     names \in {n \in UNION {[1..w -> RenameNames] : w \in 1..3} :
                  \A i, j \in 1..Len(n) : i # j => n[i] # n[j]}}

\* Object.entries(mapping): one entry per key, in insertion order
RenameMappings ==
  {m \in UNION {[1..k -> RenameNames \X RenameNames] : k \in 1..3} :
     \A i, j \in 1..Len(m) : i # j => m[i][1] # m[j][1]}

InitRename ==
  /\ \E df \in RenameFrames : store = (1 :> df)
  /\ ptr = [d1 |-> 1, d2 |-> 0]
  /\ last = [op |-> "new", args |-> <<>>, err |-> NoErr, out |-> <<>>]

RenameApply ==
  \E mapping \in RenameMappings :
    LET r == rename(store, ptr["d1"], mapping)
    IN  /\ store' = Collect(r.st, ptr)
        /\ last' = [op |-> "rename", args |-> mapping, err |-> r.err, out |-> r.out]
        /\ UNCHANGED ptr

NextRename == RenameApply

SpecRename == InitRename /\ [][NextRename]_vars

\* the name the mapping as a whole gives a column
MappedName(mapping, name) ==
  IF \E i \in 1..Len(mapping) : mapping[i][1] = name
  THEN mapping[CHOOSE i \in 1..Len(mapping) : mapping[i][1] = name][2]
  ELSE name

RenamedWhole(df, mapping) == [i \in 1..Len(df) |-> alias(df[i], MappedName(mapping, df[i].name))]

\* C4: rename(mapping) fails with DuplicateColumn if the mapping as a whole would give
\* two columns one name, and otherwise returns the frame with every mapped column
\* under its new name at its old position, whatever the order of the entries
C4_RenameWholeMapping ==
  (last.op = "rename" /\ \A i \in 1..Len(last.args) : last.args[i][1] \in NameSet(Frame("d1")))
    => IF WellFormed(RenamedWhole(Frame("d1"), last.args))
       THEN last.err = NoErr /\ last.out = <<RenamedWhole(Frame("d1"), last.args)>>
       ELSE last.err = "DuplicateColumn"

(***************************************************************************)
(* join                                                                    *)
(***************************************************************************)
\* columnOrColumns: an optional name or array of names becomes an optional array;
\* a value is [str |-> TRUE, names |-> <<name>>] or [str |-> FALSE, names |-> array]
columnOrColumns(columns) == IF Len(columns) = 0 THEN <<>> ELSE <<columns[1].names>>

\* options: [how, on, leftOn, rightOn, suffix], each optional
joinOnLeftOnly(st, id, other, options) ==
  LET how == Default(options.how, "inner")
      on == columnOrColumns(options.on)
      leftOn == IF Len(on) > 0 THEN on ELSE columnOrColumns(options.leftOn)
      rightOn == columnOrColumns(options.rightOn)
  IN  IF how = "cross" THEN wrap(st, nJoin(st[id], other, <<>>, <<>>, how, options.suffix))
      ELSE IF (Len(leftOn) > 0 /\ Len(rightOn) = 0) \/ (Len(rightOn) > 0 /\ Len(leftOn) = 0)
      THEN wrap(st, Fail("MissingJoinKey"))
      ELSE wrap(st, nJoin(st[id], other, leftOn, rightOn, how, options.suffix))

joinCrossKeyed(st, id, other, options) ==
  LET how == Default(options.how, "inner")
      on == columnOrColumns(options.on)
      leftOn == IF Len(on) > 0 THEN on ELSE columnOrColumns(options.leftOn)
      rightOn == IF Len(on) > 0 THEN on ELSE columnOrColumns(options.rightOn)
  IN  IF (Len(leftOn) > 0 /\ Len(rightOn) = 0) \/ (Len(rightOn) > 0 /\ Len(leftOn) = 0)
      THEN wrap(st, Fail("MissingJoinKey"))
      ELSE wrap(st, nJoin(st[id], other, leftOn, rightOn, how, options.suffix))

joinHowOverridden(st, id, other, options) ==
  LET how == "inner"
      on == columnOrColumns(options.on)
      leftOn == IF Len(on) > 0 THEN on ELSE columnOrColumns(options.leftOn)
      rightOn == IF Len(on) > 0 THEN on ELSE columnOrColumns(options.rightOn)
  IN  IF (Len(leftOn) > 0 /\ Len(rightOn) = 0) \/ (Len(rightOn) > 0 /\ Len(leftOn) = 0)
      THEN wrap(st, Fail("MissingJoinKey"))
      ELSE wrap(st, nJoin(st[id], other, leftOn, rightOn, how, options.suffix))

\* the TypeError "You should pass the column to join on as an argument." is the
\* wrapper's MissingJoinKey
join(st, id, other, options) ==
  LET how == Default(options.how, "inner")
      on == columnOrColumns(options.on)
      leftOn == IF Len(on) > 0 THEN on ELSE columnOrColumns(options.leftOn)
      rightOn == IF Len(on) > 0 THEN on ELSE columnOrColumns(options.rightOn)
  IN  IF how = "cross" THEN wrap(st, nJoin(st[id], other, <<>>, <<>>, how, options.suffix))
      ELSE IF (Len(leftOn) > 0 /\ Len(rightOn) = 0) \/ (Len(rightOn) > 0 /\ Len(leftOn) = 0)
      THEN wrap(st, Fail("MissingJoinKey"))
      ELSE wrap(st, nJoin(st[id], other, leftOn, rightOn, how, options.suffix))

(***************************************************************************)
(* The join machine: left = d1, right = d2, one join call                  *)
(***************************************************************************)
KeyVals == {0, 1, 2}

RowIds(h) == [i \in 1..h |-> i]

\* a key column k and a column numbering the rows
KeyedFrames(idName) ==
  {<<Series("k", ks, "Int64"), Series(idName, RowIds(Len(ks)), "Int64")>> :
     ks \in UNION {[1..h -> KeyVals] : h \in 0..MaxRows}}

Str(name) == <<[str |-> TRUE, names |-> <<name>>]>>

Arr(names) == <<[str |-> FALSE, names |-> names]>>

JoinKeyArgs ==
  { [on |-> <<>>, leftOn |-> <<>>, rightOn |-> <<>>],
    [on |-> Str("k"), leftOn |-> <<>>, rightOn |-> <<>>],
    [on |-> Arr(<<"k">>), leftOn |-> Str("lid"), rightOn |-> <<>>],
    [on |-> <<>>, leftOn |-> Str("k"), rightOn |-> <<>>],
    [on |-> <<>>, leftOn |-> <<>>, rightOn |-> Arr(<<"k">>)],
    [on |-> <<>>, leftOn |-> Str("k"), rightOn |-> Arr(<<"k">>)],
    [on |-> <<>>, leftOn |-> Arr(<<"k">>), rightOn |-> Str("k")],
    [on |-> <<>>, leftOn |-> Str("k"), rightOn |-> Arr(<<"k", "rid">>)] }

JoinOptions ==
  {[how |-> how, on |-> k.on, leftOn |-> k.leftOn, rightOn |-> k.rightOn, suffix |-> <<>>] :
     how \in {<<>>, <<"inner">>, <<"left">>, <<"outer">>, <<"cross">>}, k \in JoinKeyArgs}

InitJoin ==
  /\ \E l \in KeyedFrames("lid"), r \in KeyedFrames("rid") : store = (1 :> l) @@ (2 :> r)
  /\ ptr = [d1 |-> 1, d2 |-> 2]
  /\ last = [op |-> "new", args |-> <<>>, err |-> NoErr, out |-> <<>>]

\* join leaves both frames as they are: one call from every pair of frames
JoinApply ==
  /\ last.op = "new"
  /\ \E options \in JoinOptions :
    LET r == join(store, ptr["d1"], Frame("d2"), options)
    IN  /\ store' = Collect(r.st, ptr)
        /\ last' = [op |-> "join", args |-> options, err |-> r.err, out |-> r.out]
        /\ UNCHANGED ptr

NextJoin == JoinApply

SpecJoin == InitJoin /\ [][NextJoin]_vars

(***************************************************************************)
(* Claims about join                                                       *)
(***************************************************************************)
JoinHow == Default(last.args.how, "inner")

\* the key columns the options name for each side
LeftKey == IF Len(last.args.on) > 0 THEN last.args.on[1].names ELSE last.args.leftOn[1].names

RightKey == IF Len(last.args.on) > 0 THEN last.args.on[1].names ELSE last.args.rightOn[1].names

\* the left and right row an output row was made of (Null: none)
Lid(p) == Col(last.out[1], "lid")[p]

Rid(p) == Col(last.out[1], "rid")[p]

OutRows == 1..Height(last.out[1])

KeysEqual(i, j) ==
  \A k \in 1..Len(LeftKey) : Col(Frame("d1"), LeftKey[k])[i] = Col(Frame("d2"), RightKey[k])[j]

\* C5: a join other than cross fails with MissingJoinKey unless `on` or both leftOn and
\* rightOn are given, fails with KeyCountMismatch if leftOn and rightOn differ in
\* number, and with `on` given joins on `on` on both sides
C5_JoinKeys ==
  (last.op = "join" /\ JoinHow # "cross") =>
    LET o == last.args
    IN  /\ (Len(o.on) = 0 /\ (Len(o.leftOn) = 0 \/ Len(o.rightOn) = 0))
             => last.err = "MissingJoinKey"
        /\ (Len(o.on) = 0 /\ Len(o.leftOn) > 0 /\ Len(o.rightOn) > 0
              /\ Len(o.leftOn[1].names) # Len(o.rightOn[1].names))
             => last.err = "KeyCountMismatch"
        /\ Len(o.on) > 0 =>
             /\ last.err = NoErr
             /\ \A p \in OutRows : (Lid(p) # Null /\ Rid(p) # Null) =>
                  \A k \in 1..Len(o.on[1].names) :
                    Col(Frame("d1"), o.on[1].names[k])[Lid(p)]
                      = Col(Frame("d2"), o.on[1].names[k])[Rid(p)]
             /\ \A i \in 1..Height(Frame("d1")), j \in 1..Height(Frame("d2")) :
                  (\A k \in 1..Len(o.on[1].names) :
                     Col(Frame("d1"), o.on[1].names[k])[i] = Col(Frame("d2"), o.on[1].names[k])[j])
                    => \E p \in OutRows : Lid(p) = i /\ Rid(p) = j

C5_Witness ==
  /\ last.op = "join" /\ JoinHow = "inner" /\ Len(last.args.on) > 0 /\ Len(last.args.leftOn) > 0
  /\ last.err = NoErr /\ Height(last.out[1]) = 2

\* C6: a cross join returns one row for every pair of a left and a right row, so
\* leftRows x rightRows rows, drops no column as a key, and is the same whatever
\* on, leftOn, rightOn are passed
C6_CrossProduct ==
  (last.op = "join" /\ JoinHow = "cross") =>
    /\ last.err = NoErr
    /\ Height(last.out[1]) = Height(Frame("d1")) * Height(Frame("d2"))
    /\ \A i \in 1..Height(Frame("d1")), j \in 1..Height(Frame("d2")) :
         Cardinality({p \in OutRows : Lid(p) = i /\ Rid(p) = j}) = 1
    /\ Width(last.out[1]) = Width(Frame("d1")) + Width(Frame("d2"))
    /\ \A p \in OutRows :
         /\ Col(last.out[1], "k")[p] = Col(Frame("d1"), "k")[Lid(p)]
         /\ Col(last.out[1], "k_right")[p] = Col(Frame("d2"), "k")[Rid(p)]
    /\ last.out = join(store, ptr["d1"], Frame("d2"),
                       [last.args EXCEPT !.on = <<>>, !.leftOn = <<>>, !.rightOn = <<>>]).out

C6_Witness ==
  /\ last.op = "join" /\ JoinHow = "cross"
  /\ Len(last.args.leftOn) > 0 /\ Len(last.args.rightOn) = 0 /\ Len(last.args.on) = 0
  /\ last.err = NoErr /\ Height(last.out[1]) = 4

\* C7: a left join has every left row at least once, with the right side null when no
\* right row has an equal key; an outer join has also every right row no left row
\* matches, with the left side null; a row with both sides has equal keys
C7_LeftOuter ==
  (last.op = "join" /\ JoinHow \in {"left", "outer"} /\ last.err = NoErr) =>
    /\ \A i \in 1..Height(Frame("d1")) : \E p \in OutRows : Lid(p) = i
    /\ \A p \in OutRows :
         (Lid(p) # Null /\ ~\E j \in 1..Height(Frame("d2")) : KeysEqual(Lid(p), j))
           => Rid(p) = Null
    /\ JoinHow = "outer" =>
         \A j \in 1..Height(Frame("d2")) :
           (~\E i \in 1..Height(Frame("d1")) : KeysEqual(i, j))
             => \E p \in OutRows : Rid(p) = j /\ Lid(p) = Null
    /\ \A p \in OutRows : (Lid(p) # Null /\ Rid(p) # Null) => KeysEqual(Lid(p), Rid(p))

C7_Witness ==
  /\ last.op = "join" /\ JoinHow = "outer" /\ last.err = NoErr
  /\ \E p \in OutRows : Lid(p) # Null /\ Rid(p) = Null
  /\ \E p \in OutRows : Lid(p) = Null /\ Rid(p) # Null
  /\ \E p \in OutRows : Lid(p) # Null /\ Rid(p) # Null

(***************************************************************************)
(* As-of join                                                              *)
(***************************************************************************)
joinAsofStrategyDropped(st, id, other, options) ==
  wrap(st, lazyJoinAsof(st[id], other, [options EXCEPT !.strategy = <<>>]))

joinAsof(st, id, other, options) == wrap(st, lazyJoinAsof(st[id], other, options))

Ascending(vals) == \A i, j \in 1..Len(vals) : i < j => vals[i] <= vals[j]

\* a key column t sorted ascending, a group column g and a column numbering the rows
AsofFrames(idName) ==
  {<<Series("t", ts, "Int64"), Series("g", gs, "Int64"), Series(idName, RowIds(Len(ts)), "Int64")>> :
     <<ts, gs>> \in UNION {{t \in [1..h -> KeyVals] : Ascending(t)} \X [1..h -> {0, 1}] :
                            h \in 0..MaxRows}}

AsofOptions ==
  [on : {"t"}, by : {<<>>, <<"g">>}, strategy : {<<>>, <<"backward">>, <<"forward">>},
   tolerance : {<<>>, <<1>>}]

InitAsof ==
  /\ \E l \in AsofFrames("lid"), r \in AsofFrames("rid") : store = (1 :> l) @@ (2 :> r)
  /\ ptr = [d1 |-> 1, d2 |-> 2]
  /\ last = [op |-> "new", args |-> <<>>, err |-> NoErr, out |-> <<>>]

\* joinAsof leaves both frames as they are: one call from every pair of frames
AsofApply ==
  /\ last.op = "new"
  /\ \E options \in AsofOptions :
       LET r == joinAsof(store, ptr["d1"], Frame("d2"), options)
       IN  /\ store' = Collect(r.st, ptr)
           /\ last' = [op |-> "joinAsof", args |-> options, err |-> r.err, out |-> r.out]
           /\ UNCHANGED ptr

NextAsof == AsofApply

SpecAsof == InitAsof /\ [][NextAsof]_vars

\* the right rows left row i may be joined to: same by-group, key on the strategy's side
AsofCandidates(i) ==
  {j \in 1..Height(Frame("d2")) :
     /\ \A k \in 1..Len(last.args.by) :
          Col(Frame("d1"), last.args.by[k])[i] = Col(Frame("d2"), last.args.by[k])[j]
     /\ IF Default(last.args.strategy, "backward") = "forward"
        THEN Col(Frame("d2"), "t")[j] >= Col(Frame("d1"), "t")[i]
        ELSE Col(Frame("d2"), "t")[j] <= Col(Frame("d1"), "t")[i]}

\* the last candidate (backward) or the first one (forward)
AsofChosen(i) ==
  CHOOSE j \in AsofCandidates(i) :
    \A m \in AsofCandidates(i) :
      IF Default(last.args.strategy, "backward") = "forward" THEN j <= m ELSE j >= m

\* C8: joinAsof of frames sorted ascending by the key returns one row per left row in
\* left order; its right part is the last right row of the by-group with key <= the
\* left key (backward, the default) or the first with key >= it (forward), and is null,
\* without an error, when there is none or its key is further away than the tolerance
C8_AsofJoin ==
  last.op = "joinAsof" =>
    /\ last.err = NoErr
    /\ Height(last.out[1]) = Height(Frame("d1"))
    /\ \A p \in OutRows :
         /\ Lid(p) = p
         /\ Col(last.out[1], "t")[p] = Col(Frame("d1"), "t")[p]
         /\ Rid(p) =
              IF AsofCandidates(p) = {} THEN Null
              ELSE IF /\ Len(last.args.tolerance) > 0
                      /\ Abs(Col(Frame("d1"), "t")[p] - Col(Frame("d2"), "t")[AsofChosen(p)])
                           > last.args.tolerance[1]
                   THEN Null
              ELSE AsofChosen(p)

C8_Witness ==
  /\ last.op = "joinAsof" /\ last.err = NoErr
  /\ last.args.strategy = <<"forward">> /\ last.args.by = <<"g">> /\ last.args.tolerance = <<1>>
  /\ Height(last.out[1]) = 2
  /\ Rid(1) = 2 /\ Rid(2) = Null

(***************************************************************************)
(* The sort machine: one sort call on d1                                   *)
(***************************************************************************)
SortKeys == {0, 1, Null}

\* key columns k (with nulls) and j, and a column numbering the rows
SortFrames ==
  {<<Series("k", ks, "Int64"), Series("j", js, "Int64"), Series("id", RowIds(Len(ks)), "Int64")>> :
     <<ks, js>> \in UNION {[1..h -> SortKeys] \X [1..h -> {0, 1}] : h \in 0..MaxRows}}

SortBys == {[kind |-> "name", by |-> <<"k">>], [kind |-> "array", by |-> <<"k">>],
            [kind |-> "array", by |-> <<"j", "k">>]}

\* sort(by, descending, maintain_order) and sort({by, descending, maintain_order})
SortCalls ==
  [arg : SortBys, descending : BOOLEAN, maintain_order : BOOLEAN]
    \cup {[arg |-> [kind |-> "options", by |-> by, descending |-> d, maintain_order |-> m],
           descending |-> FALSE, maintain_order |-> FALSE] :
            by \in SortBys, d \in {<<>>, <<TRUE>>}, m \in {<<>>, <<TRUE>>}}

InitSort ==
  /\ \E df \in SortFrames : store = (1 :> df)
  /\ ptr = [d1 |-> 1, d2 |-> 0]
  /\ last = [op |-> "new", args |-> <<>>, err |-> NoErr, out |-> <<>>]

\* sort leaves the receiver as it is: one call from every frame
SortApply ==
  /\ last.op = "new"
  /\ \E c \in SortCalls :
       \E r \in sort(store, ptr["d1"], c.arg, c.descending, c.maintain_order) :
         /\ store' = Collect(r.st, ptr)
         /\ last' = [op |-> "sort", args |-> c, err |-> r.err, out |-> r.out]
         /\ UNCHANGED ptr

NextSort == SortApply

SpecSort == InitSort /\ [][NextSort]_vars

\* what the caller asked for, in either call form
AskedBy == IF last.args.arg.kind = "options" THEN last.args.arg.by.by ELSE last.args.arg.by

AskedDescending ==
  IF last.args.arg.kind = "options" THEN Default(last.args.arg.descending, FALSE)
  ELSE last.args.descending

AskedStable ==
  IF last.args.arg.kind = "options" THEN Default(last.args.arg.maintain_order, FALSE)
  ELSE last.args.maintain_order

OutKey(k, p) == Col(last.out[1], AskedBy[k])[p]

OutId(p) == Col(last.out[1], "id")[p]

\* C9: with maintain_order = true, rows with equal sort keys keep their original
\* relative order, in every call form of sort
C9_StableSort ==
  (last.op = "sort" /\ last.err = NoErr /\ AskedStable) =>
    \A a, b \in 1..Height(last.out[1]) :
      (a < b /\ \A k \in 1..Len(AskedBy) : OutKey(k, a) = OutKey(k, b)) => OutId(a) < OutId(b)

\* x may stand before y in one key column: nulls last, else by the direction
InOrder(x, y, descending) ==
  \/ y = Null
  \/ x # Null /\ (IF descending THEN x >= y ELSE x <= y)

\* C10: sort returns a permutation of the receiver's rows in lexicographic order of the
\* key columns, non-decreasing or, when descending, non-increasing, nulls last in both
\* directions and in every call form; the options form passes descending through
C10_SortOrder ==
  (last.op = "sort" /\ last.err = NoErr) =>
    /\ Height(last.out[1]) = Height(Frame("d1"))
    /\ {OutId(p) : p \in 1..Height(last.out[1])} = 1..Height(Frame("d1"))
    /\ last.out[1] = Take(Frame("d1"), Col(last.out[1], "id"))
    /\ \A a, b \in 1..Height(last.out[1]) :
         a < b =>
           \/ \A k \in 1..Len(AskedBy) : OutKey(k, a) = OutKey(k, b)
           \/ \E k \in 1..Len(AskedBy) :
                /\ \A m \in 1..(k - 1) : OutKey(m, a) = OutKey(m, b)
                /\ OutKey(k, a) # OutKey(k, b)
                /\ InOrder(OutKey(k, a), OutKey(k, b), AskedDescending)

C10_Witness ==
  /\ last.op = "sort" /\ last.err = NoErr
  /\ last.args.arg.kind = "options" /\ last.args.arg.descending = <<TRUE>>
  /\ Height(last.out[1]) = 2
  /\ \E a, b \in 1..2 :
       /\ a < b /\ OutId(a) > OutId(b)
       /\ OutKey(1, a) # Null /\ OutKey(1, a) > OutKey(1, b)

(***************************************************************************)
(* The unique machine: d1 = d1.unique(...)                                 *)
(***************************************************************************)
UniqueFrames ==
  {<<Series("a", as, "Int64"), Series("b", bs, "Int64")>> :
     <<as, bs>> \in UNION {[1..h -> {0, 1}] \X [1..h -> {0, 1}] : h \in 0..MaxRows}}

UniqueSubsets == {<<>>, Str("a"), Arr(<<"a">>)}

\* unique(maintainOrder, subset, keep) and unique({maintainOrder, subset, keep})
UniqueCalls ==
  [opts : [kind : {"bool"}, v : BOOLEAN], subset : UniqueSubsets, keep : {"first", "last"}]
    \cup [opts : [kind : {"options"}, maintainOrder : {<<>>, <<TRUE>>}, subset : UniqueSubsets,
                  keep : {<<>>, <<"last">>}],
          subset : {<<>>}, keep : {"first"}]

InitUnique ==
  /\ \E df \in UniqueFrames : store = (1 :> df)
  /\ ptr = [d1 |-> 1, d2 |-> 0]
  /\ last = [op |-> "new", args |-> <<>>, err |-> NoErr, out |-> <<>>, recv |-> <<>>,
             again |-> FALSE]

\* the caller binds the returned frame to the handle; recv is the frame it was called on,
\* again: recv is what the same call returned just before
UniqueApply ==
  \E c \in UniqueCalls :
    \E r \in unique(store, ptr["d1"], c.opts, c.subset, c.keep) :
      /\ store' = IF r.err = NoErr THEN (1 :> r.out[1]) ELSE store
      /\ last' = [op |-> "unique", args |-> c, err |-> r.err, out |-> r.out,
                  recv |-> <<Frame("d1")>>,
                  again |-> (last.op = "unique" /\ last.err = NoErr /\ last.args = c)]
      /\ UNCHANGED ptr

NextUnique == UniqueApply

SpecUnique == InitUnique /\ [][NextUnique]_vars

\* what the caller asked for, in either call form
AskedMaintainOrder ==
  IF last.args.opts.kind = "bool" THEN last.args.opts.v
  ELSE Default(last.args.opts.maintainOrder, FALSE)

AskedSubset ==
  LET s == IF last.args.opts.kind = "bool" THEN last.args.subset ELSE last.args.opts.subset
  IN  IF Len(s) = 0 THEN Columns(last.recv[1]) ELSE s[1].names

AskedKeep ==
  IF last.args.opts.kind = "bool" THEN last.args.keep ELSE Default(last.args.opts.keep, "first")

SameOver(df, cols, i, j) == \A k \in 1..Len(cols) : Col(df, cols[k])[i] = Col(df, cols[k])[j]

\* the row each class of rows equal over the subset is represented by
Representatives ==
  {i \in 1..Height(last.recv[1]) :
     \A j \in 1..Height(last.recv[1]) :
       (j # i /\ SameOver(last.recv[1], AskedSubset, i, j)) =>
         IF AskedKeep = "last" THEN j < i ELSE j > i}

\* C11: unique returns exactly one row per class of rows equal over subset (default all
\* columns), the first of the class for keep = 'first' (the default) and the last for
\* 'last', in original order when maintainOrder is true; the positional and the options
\* form agree, also for a subset given as one column name
C11_UniqueKeep ==
  last.op = "unique" =>
    /\ last.err = NoErr
    /\ \E q \in Perms(Representatives) :
         /\ last.out[1] = Take(last.recv[1], q)
         /\ AskedMaintainOrder => \A x, y \in 1..Len(q) : x < y => q[x] < q[y]

IsFirstStable(c) ==
  /\ c.opts.kind = "bool" => (c.opts.v /\ c.keep = "first")
  /\ c.opts.kind = "options" => (c.opts.maintainOrder = <<TRUE>> /\ c.opts.keep = <<>>)

\* C12: unique with keep = 'first' and maintainOrder = true applied to its own output
\* returns the same rows in the same order
C12_UniqueIdempotent ==
  (last.op = "unique" /\ last.again /\ IsFirstStable(last.args))
    => (last.err = NoErr /\ last.out = last.recv)

C12_Witness ==
  /\ last.op = "unique" /\ last.again /\ IsFirstStable(last.args)
  /\ last.args.opts.kind = "options" /\ last.args.opts.subset = Arr(<<"a">>)
  /\ Height(last.recv[1]) = 2 /\ last.out = last.recv

(***************************************************************************)
(* groupBy(...by) and the count of its groups                              *)
(***************************************************************************)
\* columnOrColumnsStrict: the rest arguments (names and arrays of names) as one list of names
columnOrColumnsStrict(by) == Concat([i \in 1..Len(by) |-> by[i].names], 1)

groupByFirstKey(st, id, by) ==
  [st |-> st, gb |-> [_df |-> id, by |-> SubSeq(columnOrColumnsStrict(by), 1, 1)]]

\* _GroupBy(_df, by): a handle on the receiver's native frame and the key names
groupBy(st, id, by) == [st |-> st, gb |-> [_df |-> id, by |-> columnOrColumnsStrict(by)]]

\* GroupBy.count()
count(st, gb) == wrap(st, nGroupByCount(st[gb._df], gb.by))

GroupByArgs == {Str("a"), Str("b"), Str("a") \o Str("b"), Arr(<<"b", "a">>)}

InitGroupBy ==
  /\ \E df \in UniqueFrames : store = (1 :> df)
  /\ ptr = [d1 |-> 1, d2 |-> 0]
  /\ last = [op |-> "new", args |-> <<>>, gb |-> <<>>, err |-> NoErr, out |-> <<>>,
             recv |-> <<>>]

GroupByCreate ==
  /\ last.op = "new"
  /\ \E by \in GroupByArgs :
       LET r == groupBy(store, ptr["d1"], by)
       IN  /\ store' = Collect(r.st, ptr)
           /\ last' = [op |-> "groupBy", args |-> by, gb |-> <<r.gb>>, err |-> NoErr,
                       out |-> <<>>, recv |-> <<Frame("d1")>>]
           /\ UNCHANGED ptr

GroupByCount ==
  /\ last.op = "groupBy"
  /\ LET r == count(store, last.gb[1])
     IN  /\ store' = Collect(r.st, ptr)
         /\ last' = [last EXCEPT !.op = "count", !.err = r.err, !.out = r.out]
         /\ UNCHANGED ptr

NextGroupBy == GroupByCreate \/ GroupByCount

SpecGroupBy == InitGroupBy /\ [][NextGroupBy]_vars

\* the key names the caller passed, flattened
AskedKeys == Concat([i \in 1..Len(last.args) |-> last.args[i].names], 1)

KeyTuple(df, keys, i) == [k \in 1..Len(keys) |-> Col(df, keys[k])[i]]

\* C13: groupBy(keys).count() has one row per distinct key tuple of the receiver, the
\* counts are the sizes of the groups and sum to the receiver's height; making the
\* groupBy handle computes nothing and leaves the receiver as it was
C13_GroupByCount ==
  /\ last.op \in {"groupBy", "count"} => Frame("d1") = last.recv[1]
  /\ last.op = "groupBy" => last.out = <<>>
  /\ last.op = "count" =>
       /\ last.err = NoErr
       /\ Columns(last.out[1]) = AskedKeys \o <<"count">>
       /\ {KeyTuple(last.out[1], AskedKeys, g) : g \in 1..Height(last.out[1])}
            = {KeyTuple(last.recv[1], AskedKeys, i) : i \in 1..Height(last.recv[1])}
       /\ Height(last.out[1])
            = Cardinality({KeyTuple(last.recv[1], AskedKeys, i) : i \in 1..Height(last.recv[1])})
       /\ \A g \in 1..Height(last.out[1]) :
            Col(last.out[1], "count")[g]
              = Cardinality({i \in 1..Height(last.recv[1]) :
                               KeyTuple(last.recv[1], AskedKeys, i)
                                 = KeyTuple(last.out[1], AskedKeys, g)})
       /\ SeqSum(Col(last.out[1], "count")) = Height(last.recv[1])

C13_Witness ==
  /\ last.op = "count" /\ last.err = NoErr /\ Len(AskedKeys) = 2
  /\ Height(last.recv[1]) = 2 /\ Height(last.out[1]) = 2
  /\ Col(last.recv[1], "a")[1] = Col(last.recv[1], "a")[2]

(***************************************************************************)
(* sum(axis, nullStrategy) and mean(axis, nullStrategy)                    *)
(***************************************************************************)
\* the result: [kind |-> "series" or "frame", out |-> <<the Series or the frame>>]
sumStrategyDropped(st, id, axis, nullStrategy) ==
  IF axis = 1 THEN [kind |-> "series", out |-> <<nHsum(st[id], "ignore")>>]
  ELSE [kind |-> "frame", out |-> <<lazySum(st[id])>>]

sum(st, id, axis, nullStrategy) ==
  IF axis = 1 THEN [kind |-> "series", out |-> <<nHsum(st[id], nullStrategy)>>]
  ELSE [kind |-> "frame", out |-> <<lazySum(st[id])>>]

mean(st, id, axis, nullStrategy) ==
  IF axis = 1 THEN [kind |-> "series", out |-> <<nHmean(st[id], nullStrategy)>>]
  ELSE [kind |-> "frame", out |-> <<lazyMean(st[id])>>]

\* cells whose sums divide by every count of values the frames allow
ReduceVals == {Null, 0, 6}

ReduceFrames ==
  {<<Series("a", as, "Int64"), Series("b", bs, "Int64")>> :
     <<as, bs>> \in UNION {[1..h -> ReduceVals] \X [1..h -> ReduceVals] : h \in 0..MaxRows}}

ReduceCalls ==
  [fn : {"sum", "mean"}, axis : {<<>>, <<0>>, <<1>>},
   nullStrategy : {<<>>, <<"ignore">>, <<"propagate">>}]

InitReduce ==
  /\ \E df \in ReduceFrames : store = (1 :> df)
  /\ ptr = [d1 |-> 1, d2 |-> 0]
  /\ last = [op |-> "new", args |-> <<>>, kind |-> "", out |-> <<>>]

\* sum and mean leave the receiver as it is: one call from every frame
ReduceApply ==
  /\ last.op = "new"
  /\ \E c \in ReduceCalls :
       LET r == IF c.fn = "sum"
                THEN sum(store, ptr["d1"], Default(c.axis, 0), Default(c.nullStrategy, "ignore"))
                ELSE mean(store, ptr["d1"], Default(c.axis, 0), Default(c.nullStrategy, "ignore"))
       IN  /\ last' = [op |-> c.fn, args |-> c, kind |-> r.kind, out |-> r.out]
           /\ UNCHANGED <<store, ptr>>

NextReduce == ReduceApply

SpecReduce == InitReduce /\ [][NextReduce]_vars

\* the sum or the mean of the non-null cells among vals (there is one)
Reduced(fn, vals) ==
  IF fn = "sum" THEN SeqSum(NonNull(vals)) ELSE SeqSum(NonNull(vals)) \div Len(NonNull(vals))

\* C14: with axis 1, sum and mean return one value per row, the reduction of the row's
\* non-null cells under 'ignore' (the default) and null for a row with a null under
\* 'propagate'; with axis 0 (the default) they return one row of column aggregates and
\* nullStrategy has no effect
C14_AxisAndNulls ==
  last.op \in {"sum", "mean"} =>
    LET df == Frame("d1")
        strategy == Default(last.args.nullStrategy, "ignore")
    IN  IF last.args.axis = <<1>>
        THEN /\ last.kind = "series"
             /\ Len(last.out[1].values) = Height(df)
             /\ \A i \in 1..Height(df) :
                  IF strategy = "propagate" /\ Len(NonNull(Row(df, i))) < Width(df)
                  THEN last.out[1].values[i] = Null
                  ELSE Len(NonNull(Row(df, i))) > 0
                         => last.out[1].values[i] = Reduced(last.op, Row(df, i))
        ELSE /\ last.kind = "frame"
             /\ Columns(last.out[1]) = Columns(df)
             /\ Height(last.out[1]) = 1
             /\ \A c \in 1..Width(df) :
                  Len(NonNull(df[c].values)) > 0
                    => last.out[1][c].values[1] = Reduced(last.op, df[c].values)
             /\ \A other \in {"ignore", "propagate"} :
                  last.out = (IF last.op = "sum" THEN sum(store, ptr["d1"], 0, other)
                              ELSE mean(store, ptr["d1"], 0, other)).out

C14_Witness ==
  /\ last.op = "sum" /\ last.args.axis = <<1>> /\ last.args.nullStrategy = <<"propagate">>
  /\ Len(last.out[1].values) = 2
  /\ last.out[1].values[1] = Null /\ last.out[1].values[2] = 12

(***************************************************************************)
(* transpose(options)                                                      *)
(***************************************************************************)
\* an iterable of names: [array |-> BOOLEAN, items |-> the names it yields first,
\* endless |-> whether it goes on yielding after them]
HasItem(iterable, k) == iterable.endless \/ k <= Len(iterable.items)

ItemAt(iterable, k) ==
  IF k <= Len(iterable.items) THEN iterable.items[k] ELSE "more_" \o DigitStr(k % 10)

\* the for-of loop of takeNItems: an item is read, then i >= n is tested
RECURSIVE takeLoop(_, _, _, _)
takeLoop(iterable, n, result, reads) ==
  IF ~HasItem(iterable, reads + 1) THEN [result |-> result, reads |-> reads]
  ELSE IF Len(result) >= n THEN [result |-> result, reads |-> reads + 1]
  ELSE takeLoop(iterable, n, Append(result, ItemAt(iterable, reads + 1)), reads + 1)

takeNItems(iterable, n) == takeLoop(iterable, n, <<>>, 0)

\* Array.prototype.slice(0, n)
sliceTo(items, n) == SubSeq(items, 1, IF n < Len(items) THEN n ELSE Len(items))

transposeUntruncated(st, id, options) ==
  LET includeHeader == Default(options.includeHeader, FALSE)
      headeName == Default(options.headerName, "column")
      keep_names_as == IF includeHeader THEN <<headeName>> ELSE <<>>
  IN  IF Len(options.columnNames) = 0
      THEN wrap(st, nTranspose(st[id], keep_names_as, <<>>)) @@ [reads |-> 0]
      ELSE wrap(st, nTranspose(st[id], keep_names_as, <<options.columnNames[1].items>>))
             @@ [reads |-> Len(options.columnNames[1].items)]

\* options: [includeHeader, headerName, columnNames], each optional
transpose(st, id, options) ==
  LET includeHeader == Default(options.includeHeader, FALSE)
      headeName == Default(options.headerName, "column")
      keep_names_as == IF includeHeader THEN <<headeName>> ELSE <<>>
      height == Height(st[id])
      taken == IF Len(options.columnNames) = 0 THEN [result |-> <<>>, reads |-> 0]
               ELSE IF options.columnNames[1].array
                    THEN [result |-> sliceTo(options.columnNames[1].items, height),
                          reads |-> Len(sliceTo(options.columnNames[1].items, height))]
               ELSE takeNItems(options.columnNames[1], height)
  IN  IF Len(options.columnNames) = 0
      THEN wrap(st, nTranspose(st[id], keep_names_as, <<>>)) @@ [reads |-> 0]
      ELSE wrap(st, nTranspose(st[id], keep_names_as, <<taken.result>>))
             @@ [reads |-> taken.reads]

NewNames == <<"n1", "n2", "n3", "n4", "n5">>

ColumnNamesArgs ==
  { <<>>,
    <<[array |-> TRUE, items |-> <<>>, endless |-> FALSE]>>,
    <<[array |-> TRUE, items |-> SubSeq(NewNames, 1, 1), endless |-> FALSE]>>,
    <<[array |-> TRUE, items |-> NewNames, endless |-> FALSE]>>,
    <<[array |-> FALSE, items |-> SubSeq(NewNames, 1, 1), endless |-> FALSE]>>,
    <<[array |-> FALSE, items |-> NewNames, endless |-> FALSE]>>,
    <<[array |-> FALSE, items |-> <<>>, endless |-> TRUE]>> }

TransposeOptions ==
  [includeHeader : {<<>>, <<TRUE>>}, headerName : {<<>>, <<"foo">>},
   columnNames : ColumnNamesArgs]

InitTranspose ==
  /\ \E df \in UniqueFrames : store = (1 :> df)
  /\ ptr = [d1 |-> 1, d2 |-> 0]
  /\ last = [op |-> "new", args |-> <<>>, err |-> NoErr, out |-> <<>>, reads |-> 0]

\* transpose leaves the receiver as it is: one call from every frame
TransposeApply ==
  /\ last.op = "new"
  /\ \E options \in TransposeOptions :
       LET r == transpose(store, ptr["d1"], options)
       IN  /\ last' = [op |-> "transpose", args |-> options, err |-> r.err, out |-> r.out,
                       reads |-> r.reads]
           /\ UNCHANGED <<store, ptr>>

NextTranspose == TransposeApply

SpecTranspose == InitTranspose /\ [][NextTranspose]_vars

meltSwapped(st, id, ids, values) ==
  wrap(st, nMelt(st[id], columnOrColumns(values), columnOrColumns(ids)))

melt(st, id, ids, values) ==
  wrap(st, nMelt(st[id], columnOrColumns(ids), columnOrColumns(values)))

AggNames == {"first", "sum", "max", "min", "mean", "median", "last", "count"}

\* the properties every object literal inherits from Object.prototype
ObjectPrototypeNames ==
  {"constructor", "toString", "toLocaleString", "valueOf", "hasOwnProperty",
   "isPrototypeOf", "propertyIsEnumerable", "__proto__"}

\* { first: element().first(), ... }[aggregateFunc]: optional; an own key gives its
\* expression, an inherited property gives whatever Object.prototype holds
AggregateLookup(aggregateFunc) ==
  IF aggregateFunc \in AggNames THEN <<[kind |-> "expr", agg |-> aggregateFunc]>>
  ELSE IF aggregateFunc \in ObjectPrototypeNames
       THEN <<[kind |-> "inherited", agg |-> aggregateFunc]>>
  ELSE <<>>

\* values: [isOptions |-> BOOLEAN, sel |-> the names given]; options: optional record
\* [values, index, columns, aggregateFunc, maintainOrder, sortColumns, separator] whose
\* fields are optional; aggregateFunc is a string
pivotValuesMixedUp(st, id, values, options) ==
  IF Len(options) = 0 THEN {wrap(st, Fail("TypeError"))}
  ELSE LET o == options[1]
           index == o.index[1].names
           columns == o.columns[1].names
           fn == AggregateLookup(Default(o.aggregateFunc, "first"))
       IN  IF Len(fn) = 0 THEN {wrap(st, Fail("UnknownAggregate"))}
           ELSE wrapAll(st, nPivotExpr(st[id], index, index, columns, fn[1],
                                        Default(o.maintainOrder, TRUE),
                                        Default(o.sortColumns, FALSE), o.separator))

\* destructuring an undefined options throws a TypeError
pivot(st, id, values, options) ==
  IF Len(options) = 0 THEN {wrap(st, Fail("TypeError"))}
  ELSE LET o == options[1]
           vals == IF Len(o.values) > 0 THEN o.values[1].names ELSE values.sel[1].names
           index == o.index[1].names
           columns == o.columns[1].names
           fn == AggregateLookup(Default(o.aggregateFunc, "first"))
       IN  IF Len(fn) = 0 THEN {wrap(st, Fail("UnknownAggregate"))}
           ELSE wrapAll(st, nPivotExpr(st[id], vals, index, columns, fn[1],
                                        Default(o.maintainOrder, TRUE),
                                        Default(o.sortColumns, FALSE), o.separator))

\* wide frames: an id column and the value columns x and y
WideFrames ==
  {<<Series("id", ids, "Int64"), Series("x", xs, "Int64"), Series("y", ys, "Int64")>> :
     <<ids, xs, ys>> \in UNION {[1..h -> {0, 1}] \X [1..h -> {0, 1}] \X [1..h -> {2, 3}] :
                                  h \in 0..MaxRows}}

MeltArgs ==
  { [ids |-> Str("id"), values |-> Arr(<<"x", "y">>)],
    [ids |-> Arr(<<"id">>), values |-> Arr(<<"y", "x">>)],
    [ids |-> Str("id"), values |-> Str("y")] }

PivotAggs == {<<>>, <<"first">>, <<"last">>, <<"count">>, <<"bogus">>, <<"toString">>}

\* pivot(values, {index, columns, ...}) and pivot({values, index, columns, ...})
PivotCalls ==
  {[form |-> "two", values |-> Str("value"),
    o |-> [values |-> <<>>, index |-> Str("id"), columns |-> Str("variable"),
           aggregateFunc |-> a, maintainOrder |-> <<>>, sortColumns |-> <<>>,
           separator |-> <<>>]] : a \in PivotAggs}
  \cup
  {[form |-> "one", values |-> <<>>,
    o |-> [values |-> Str("value"), index |-> Arr(<<"id">>), columns |-> Str("variable"),
           aggregateFunc |-> a, maintainOrder |-> <<>>, sortColumns |-> <<>>,
           separator |-> <<>>]] : a \in PivotAggs}

InitPivot ==
  /\ \E df \in WideFrames : store = (1 :> df)
  /\ ptr = [d1 |-> 1, d2 |-> 0]
  /\ last = [op |-> "new", melt |-> <<>>, args |-> <<>>, err |-> NoErr, out |-> <<>>,
             cut |-> FALSE]

\* d2 = d1.melt(ids, values)
MeltApply ==
  /\ last.op = "new"
  /\ \E m \in MeltArgs :
       LET r == melt(store, ptr["d1"], m.ids, m.values)
       IN  /\ store' = IF r.err = NoErr THEN store @@ (2 :> r.out[1]) ELSE store
           /\ ptr' = IF r.err = NoErr THEN [ptr EXCEPT !["d2"] = 2] ELSE ptr
           /\ last' = [last EXCEPT !.op = "melt", !.melt = <<m>>, !.err = r.err, !.out = r.out]

\* d2 = d2.slice(1, height - 1): the long frame without its first row
CutApply ==
  /\ last.op = "melt" /\ last.err = NoErr /\ Height(Frame("d2")) > 0
  /\ LET r == slice(store, ptr["d2"], 1, Height(Frame("d2")) - 1)
     IN  /\ store' = [store EXCEPT ![2] = r.out[1]]
         /\ last' = [last EXCEPT !.op = "slice", !.cut = TRUE, !.out = r.out]
         /\ UNCHANGED ptr

PivotApply ==
  /\ last.op \in {"melt", "slice"} /\ last.err = NoErr
  /\ \E c \in PivotCalls :
       \E r \in IF c.form = "one"
                THEN pivot(store, ptr["d2"], [isOptions |-> TRUE, sel |-> <<>>], <<>>)
                ELSE pivot(store, ptr["d2"], [isOptions |-> FALSE, sel |-> c.values], <<c.o>>) :
         /\ last' = [last EXCEPT !.op = "pivot", !.args = <<c>>, !.err = r.err, !.out = r.out]
         /\ UNCHANGED <<store, ptr>>

NextPivot == MeltApply \/ CutApply \/ PivotApply

SpecPivot == InitPivot /\ [][NextPivot]_vars

MeltIds == last.melt[1].ids[1].names

MeltVars == last.melt[1].values[1].names

\* C15: melt(idVars, valueVars) returns height * len(valueVars) rows with the id columns
\* followed by variable and value; the rows go by original row and, within it, in
\* valueVars order; each value is the receiver's cell at that row and variable
C15_MeltLayout ==
  last.op = "melt" =>
    /\ last.err = NoErr
    /\ Columns(last.out[1]) = MeltIds \o <<"variable", "value">>
    /\ Height(last.out[1]) = Height(Frame("d1")) * Len(MeltVars)
    /\ \A i \in 1..Height(Frame("d1")), k \in 1..Len(MeltVars) :
         LET r == (i - 1) * Len(MeltVars) + k
         IN  /\ Col(last.out[1], "variable")[r] = MeltVars[k]
             /\ Col(last.out[1], "value")[r] = Col(Frame("d1"), MeltVars[k])[i]
             /\ \A c \in 1..Len(MeltIds) :
                  Col(last.out[1], MeltIds[c])[r] = Col(Frame("d1"), MeltIds[c])[i]

C15_Witness ==
  /\ last.op = "melt" /\ last.err = NoErr
  /\ MeltVars = <<"y", "x">> /\ Height(Frame("d1")) = 2
  /\ Col(last.out[1], "variable") = <<"y", "x", "y", "x">>
  /\ Col(last.out[1], "value") = <<2, 0, 3, 1>>

IdsDistinct(df) == \A i, j \in 1..Height(df) : i # j => Col(df, "id")[i] # Col(df, "id")[j]

\* the long frame that was pivoted has a row for this id and variable
InLong(d, v) ==
  \E r \in 1..Height(Frame("d2")) :
    Col(Frame("d2"), "id")[r] = d /\ Col(Frame("d2"), "variable")[r] = v

\* C16: for a frame with pairwise distinct ids, pivoting the melted frame with
\* values 'value', index idVars, columns 'variable' and aggregate 'first' gives back the
\* original value of every value column for every row, and null for a combination of
\* index and column that the long frame does not have
C16_PivotOfMelt ==
  (/\ last.op = "pivot" /\ last.args[1].form = "two"
   /\ last.args[1].o.aggregateFunc \in {<<>>, <<"first">>}
   /\ IdsDistinct(Frame("d1"))) =>
    /\ last.err = NoErr
    /\ \A i \in 1..Height(Frame("d1")), k \in 1..Len(MeltVars) :
         InLong(Col(Frame("d1"), "id")[i], MeltVars[k]) =>
           /\ MeltVars[k] \in NameSet(last.out[1])
           /\ \E g \in 1..Height(last.out[1]) :
                /\ Col(last.out[1], "id")[g] = Col(Frame("d1"), "id")[i]
                /\ Col(last.out[1], MeltVars[k])[g] = Col(Frame("d1"), MeltVars[k])[i]
    /\ \A g \in 1..Height(last.out[1]), c \in 2..Width(last.out[1]) :
         ~InLong(Col(last.out[1], "id")[g], last.out[1][c].name)
           => last.out[1][c].values[g] = Null
    /\ \A g, h \in 1..Height(last.out[1]) :
         g # h => Col(last.out[1], "id")[g] # Col(last.out[1], "id")[h]

C16_Witness ==
  /\ last.op = "pivot" /\ last.err = NoErr /\ last.args[1].form = "two" /\ last.cut
  /\ IdsDistinct(Frame("d1")) /\ Height(Frame("d1")) = 2 /\ MeltVars = <<"x", "y">>
  /\ Columns(last.out[1]) = <<"id", "y", "x">>
  /\ Col(last.out[1], "x")[1] = Null
  /\ Col(last.out[1], "x")[2] = Col(Frame("d1"), "x")[2]

\* C17: pivot({values, index, columns, ...}) returns the same frame as
\* pivot(values, {index, columns, ...}), with the same defaults
C17_PivotOptionsForm ==
  (last.op = "pivot" /\ last.args[1].form = "one") =>
    \E r \in pivot(store, ptr["d2"], [isOptions |-> FALSE, sel |-> last.args[1].o.values],
                   <<[last.args[1].o EXCEPT !.values = <<>>]>>) :
      r.err = last.err /\ r.out = last.out

\* C18: pivot with an aggregateFunc string outside the eight aggregate names fails with
\* the unknown-aggregate error, whatever the string
C18_UnknownAggregate ==
  (/\ last.op = "pivot" /\ last.args[1].form = "two"
   /\ Len(last.args[1].o.aggregateFunc) = 1
   /\ last.args[1].o.aggregateFunc[1] \notin AggNames)
    => last.err = "UnknownAggregate"

(***************************************************************************)
(* withColumn(series) and withColumns(...series)                           *)
(***************************************************************************)
\* columns.reduce((acc, curr) => acc.withColumn(curr), _DataFrame(_df)); a failing
\* withColumn throws out of the reduce
RECURSIVE withColumnsReduce(_, _, _, _)
withColumnsReduce(st, acc, columns, i) ==
  IF i > Len(columns) THEN wrap(st, Ok(acc))
  ELSE LET r == withColumn((1 :> acc), 1, columns[i])
       IN  IF r.err # NoErr THEN wrap(st, Fail(r.err))
           ELSE withColumnsReduce(st, r.out[1], columns, i + 1)

Reversed(seq) == [i \in 1..Len(seq) |-> seq[Len(seq) + 1 - i]]

withColumnsReversed(st, id, columns) == withColumnsReduce(st, st[id], Reversed(columns), 1)

\* the branch of Series arguments (isSeriesArray)
withColumns(st, id, columns) == withColumnsReduce(st, st[id], columns, 1)

WithColumnFrames ==
  {<<>>}
    \cup {<<Series("a", as, "Int64")>> : as \in UNION {[1..h -> {0, 1}] : h \in 0..MaxRows}}
    \cup {<<Series("a", as, "Int64"), Series("b", bs, "Int64")>> :
            <<as, bs>> \in UNION {[1..h -> {0, 1}] \X [1..h -> {0, 1}] : h \in 0..MaxRows}}

WithColumnSeries ==
  {Series(n, ConstVals(h, c), "Int64") : n \in {"a", "b", "c"}, h \in 0..MaxRows, c \in {5, 6}}

WithColumnLists ==
  {<<>>} \cup {<<s>> : s \in WithColumnSeries} \cup {<<s, t>> : s, t \in WithColumnSeries}

InitWithColumn ==
  /\ \E df \in WithColumnFrames : store = (1 :> df)
  /\ ptr = [d1 |-> 1, d2 |-> 0]
  /\ last = [op |-> "new", args |-> <<>>, err |-> NoErr, out |-> <<>>]

WithColumnApply ==
  /\ last.op = "new"
  /\ \E s \in WithColumnSeries :
       LET r == withColumn(store, ptr["d1"], s)
       IN  last' = [op |-> "withColumn", args |-> <<s>>, err |-> r.err, out |-> r.out]
  /\ UNCHANGED <<store, ptr>>

WithColumnsApply ==
  /\ last.op = "new"
  /\ \E cols \in WithColumnLists :
       LET r == withColumns(store, ptr["d1"], cols)
       IN  last' = [op |-> "withColumns", args |-> cols, err |-> r.err, out |-> r.out]
  /\ UNCHANGED <<store, ptr>>

NextWithColumn == WithColumnApply \/ WithColumnsApply

SpecWithColumn == InitWithColumn /\ [][NextWithColumn]_vars

\* what withColumn(s) has to return for frame df, as the contract states it:
\* <<>> where it has to fail or the contract leaves the outcome open
Expected(df, s) ==
  IF Width(df) > 0 /\ Len(s.values) # Height(df) THEN <<>>
  ELSE IF s.name \in NameSet(df)
       THEN <<[i \in 1..Width(df) |-> IF df[i].name = s.name THEN s ELSE df[i]]>>
       ELSE <<df \o <<s>>>>

\* C20: withColumn(series) replaces the column of the same name at its position or
\* appends the series as last column (width + 1), and fails with LengthMismatch when the
\* length differs from the height of a non-empty frame; withColumns(s1..sk) gives what
\* withColumn(s1), ..., withColumn(sk) give when applied one after the other
C20_WithColumn ==
  /\ last.op = "withColumn" =>
       LET df == Frame("d1")
           s == last.args[1]
       IN  /\ (Width(df) > 0 /\ Height(df) > 0 /\ Len(s.values) # Height(df))
                => last.err = "LengthMismatch"
           /\ (Width(df) = 0 \/ Len(s.values) = Height(df))
                => /\ last.err = NoErr
                   /\ last.out = Expected(df, s)
                   /\ s.name \notin NameSet(df) => Width(last.out[1]) = Width(df) + 1
                   /\ s.name \in NameSet(df) => Columns(last.out[1]) = Columns(df)
  /\ (last.op = "withColumns" /\ Len(last.args) = 0) =>
       last.err = NoErr /\ last.out = <<Frame("d1")>>
  /\ (last.op = "withColumns" /\ Len(last.args) = 1) =>
       LET r1 == withColumn(store, ptr["d1"], last.args[1])
       IN  last.err = r1.err /\ last.out = r1.out
  /\ (last.op = "withColumns" /\ Len(last.args) = 2) =>
       LET r1 == withColumn(store, ptr["d1"], last.args[1])
       IN  IF r1.err # NoErr THEN last.err = r1.err /\ last.out = <<>>
           ELSE LET r2 == withColumn((1 :> r1.out[1]), 1, last.args[2])
                IN  last.err = r2.err /\ last.out = r2.out

C20_Witness ==
  /\ last.op = "withColumns" /\ last.err = NoErr /\ Len(last.args) = 2
  /\ Columns(Frame("d1")) = <<"a", "b">> /\ Height(Frame("d1")) = 2
  /\ last.args[1].name = "a" /\ last.args[2].name = "a"
  /\ last.args[1].values = <<5, 5>> /\ last.args[2].values = <<6, 6>>
  /\ Columns(last.out[1]) = <<"a", "b">>
  /\ Col(last.out[1], "a") = <<6, 6>>

(***************************************************************************)
(* hstack, vstack and extend                                               *)
(***************************************************************************)
extend(st, id, other) == wrap(st, nExtend(st[id], other))

StackDTypes == {"Int64", "Float64"}

StackFrames ==
  {<<>>}
    \cup {<<Series("a", ConstVals(h, 0), t)>> : h \in 0..MaxRows, t \in StackDTypes}
    \cup {<<Series("a", ConstVals(h, 0), t), Series("b", ConstVals(h, 1), "Int64")>> :
            h \in 0..MaxRows, t \in StackDTypes}
    \cup {<<Series("b", ConstVals(h, 1), "Int64"), Series("a", ConstVals(h, 0), t)>> :
            h \in 0..MaxRows, t \in StackDTypes}

StackSeries == {Series(n, ConstVals(h, 7), "Int64") : n \in {"a", "b", "c"}, h \in 0..MaxRows}

\* hstack takes an array of Series or a DataFrame (columns.getColumns())
StackColumns ==
  {<<>>} \cup {<<s>> : s \in StackSeries} \cup {<<s, t>> : s, t \in StackSeries}
    \cup StackFrames

InitStack ==
  /\ \E df \in StackFrames : store = (1 :> df)
  /\ ptr = [d1 |-> 1, d2 |-> 0]
  /\ last = [op |-> "new", args |-> <<>>, err |-> NoErr, out |-> <<>>, recv |-> <<>>]

Stacked(op, args, r) ==
  /\ store' = r.st
  /\ last' = [op |-> op, args |-> args, err |-> r.err, out |-> r.out, recv |-> Frame("d1")]
  /\ UNCHANGED ptr

HstackApply ==
  /\ last.op = "new"
  /\ \E cols \in StackColumns, inPlace \in BOOLEAN :
       Stacked(IF inPlace THEN "hstackMut" ELSE "hstack", cols,
               hstack(store, ptr["d1"], cols, inPlace))

VstackApply ==
  /\ last.op = "new"
  /\ \E other \in StackFrames : Stacked("vstack", other, vstack(store, ptr["d1"], other))

ExtendApply ==
  /\ last.op = "new"
  /\ \E other \in StackFrames : Stacked("extend", other, extend(store, ptr["d1"], other))

NextStack == HstackApply \/ VstackApply \/ ExtendApply

SpecStack == InitStack /\ [][NextStack]_vars

\* the columns can be added: names not in the frame, pairwise different, lengths = height
Stackable(df, cols) ==
  /\ \A i \in 1..Len(cols) : cols[i].name \notin NameSet(df)
  /\ \A i, j \in 1..Len(cols) : i # j => cols[i].name # cols[j].name
  /\ \A i \in 1..Len(cols) : Len(cols[i].values) = Height(df)

\* the frame an hstack produced: the returned one, or the receiver when in place
HstackResult == IF last.op = "hstackMut" THEN Frame("d1") ELSE last.out[1]

IsIndexKey(k) == \E n \in 0..9 : DigitStr(n) = k

IndexValue(k) == CHOOSE n \in 0..9 : DigitStr(n) = k

\* obj[key] = value on an ordinary object, obj being its entries in iteration order
ObjectAssign(obj, key, value) ==
  IF \E i \in 1..Len(obj) : obj[i].key = key
  THEN [i \in 1..Len(obj) |-> IF obj[i].key = key THEN [key |-> key, value |-> value] ELSE obj[i]]
  ELSE IF IsIndexKey(key)
       THEN LET before == SelectSeq(obj, LAMBDA e : IsIndexKey(e.key) /\ IndexValue(e.key) < IndexValue(key))
                after == SelectSeq(obj, LAMBDA e : ~(IsIndexKey(e.key) /\ IndexValue(e.key) < IndexValue(key)))
            IN  before \o <<[key |-> key, value |-> value]>> \o after
       ELSE Append(obj, [key |-> key, value |-> value])

\* this.getColumns().reduce((acc, curr) => { acc[curr.name] = curr.dtype; return acc }, {})
RECURSIVE schemaReduce(_, _, _)
schemaReduce(acc, columns, i) ==
  IF i > Len(columns) THEN acc
  ELSE schemaReduce(ObjectAssign(acc, columns[i].name, columns[i].dtype), columns, i + 1)

schema(st, id) == schemaReduce(<<>>, st[id], 1)

SchemaNames == {"a", "1", "2"}

SchemaSeries == {Series(n, <<0>>, t) : n \in SchemaNames, t \in {"Int64", "Float64"}}

SchemaNameLists ==
  {<<n>> : n \in SchemaNames} \cup {<<n, m>> : n, m \in SchemaNames}
    \cup {<<"a", "2", "1">>, <<"2", "1", "a">>}

InitSchema ==
  /\ \E df \in {<<>>} \cup {<<s>> : s \in SchemaSeries} : store = (1 :> df)
  /\ ptr = [d1 |-> 1, d2 |-> 0]
  /\ last = [op |-> "new", err |-> NoErr]

Mutated(op, r) ==
  /\ store' = r.st
  /\ last' = [op |-> op, err |-> r.err]
  /\ UNCHANGED ptr

InsertStep ==
  \E idx \in 0..2, s \in SchemaSeries :
    Mutated("insertAtIdx", insertAtIdx(store, ptr["d1"], idx, s))

ReplaceStep ==
  \E idx \in 0..2, s \in SchemaSeries :
    Mutated("replaceAtIdx", replaceAtIdx(store, ptr["d1"], idx, s))

SetColumnsStep ==
  \E names \in SchemaNameLists :
    Mutated("setColumns", ProxySet(store, ptr["d1"], "columns", [kind |-> "names", names |-> names]))

SetPropertyStep ==
  \E prop \in SchemaNames, s \in SchemaSeries :
    Mutated("setProperty", ProxySet(store, ptr["d1"], prop, [kind |-> "series", s |-> s]))

NextSchema == InsertStep \/ ReplaceStep \/ SetColumnsStep \/ SetPropertyStep

SpecSchema == InitSchema /\ [][NextSchema]_vars

\* C22: at every point, also right after an in-place mutator, the keys of the schema in
\* iteration order are the column names in column order, and the value of each key is
\* the dtype of that column, also for names that are digit strings
C22_SchemaLockstep ==
  LET sch == schema(store, ptr["d1"])
  IN  /\ [i \in 1..Len(sch) |-> sch[i].key] = Columns(Frame("d1"))
      /\ \A i \in 1..Len(sch) : sch[i].value = Frame("d1")[i].dtype

(***************************************************************************)
(* Property reads through the Proxy, and the column iterator               *)
(***************************************************************************)
\* Proxy.get for a string prop: a column of that name wins, then a numeric prop is a row
\* index, and only then the property of the wrapper is read
ProxyGet(st, id, prop) ==
  IF prop \in NameSet(st[id])
  THEN [kind |-> "series", s |-> st[id][indexOf(Columns(st[id]), prop) + 1]]
  ELSE IF IsIndexKey(prop) THEN [kind |-> "row", idx |-> IndexValue(prop)]
  ELSE IF prop = "height" THEN [kind |-> "number", n |-> Height(st[id])]
  ELSE IF prop = "width" THEN [kind |-> "number", n |-> Width(st[id])]
  ELSE IF prop = "columns" THEN [kind |-> "names", names |-> Columns(st[id])]
  ELSE IF prop = "schema" THEN [kind |-> "object", entries |-> schema(st, id)]
  ELSE [kind |-> "undefined"]

toSeries(st, id, index) == st[id][index + 1]

\* the generator run to its end: len = this.width, then toSeries(0), ..., toSeries(len - 1);
\* when this.width is not a number, `start < len` compares a number with an object:
\* the loop is not entered, or the comparison throws
iterate(st, id) ==
  LET len == ProxyGet(st, id, "width")
  IN  IF len.kind = "number"
      THEN {[err |-> NoErr, yielded |-> [i \in 1..len.n |-> toSeries(st, id, i - 1)]]}
      ELSE {[err |-> NoErr, yielded |-> <<>>], [err |-> "TypeError", yielded |-> <<>>]}

ProxyNames == {"a", "height", "width", "columns", "schema"}

ProxyFrames ==
  {<<>>}
    \cup {<<Series(n, ConstVals(h, 0), "Int64")>> : n \in ProxyNames, h \in 0..MaxRows}
    \cup {<<Series(n, ConstVals(h, 0), "Int64"), Series(m, ConstVals(h, 1), "Float64")>> :
            <<n, m>> \in {p \in ProxyNames \X ProxyNames : p[1] # p[2]}, h \in 0..MaxRows}

Getters == {"height", "width", "columns", "schema"}

InitProxy ==
  /\ \E df \in ProxyFrames : store = (1 :> df)
  /\ ptr = [d1 |-> 1, d2 |-> 0]
  /\ last = [op |-> "new", prop |-> "", res |-> [kind |-> "undefined"], err |-> NoErr,
             yielded |-> <<>>]

GetApply ==
  /\ last.op = "new"
  /\ \E prop \in Getters :
       last' = [last EXCEPT !.op = "get", !.prop = prop, !.res = ProxyGet(store, ptr["d1"], prop)]
  /\ UNCHANGED <<store, ptr>>

IterateApply ==
  /\ last.op = "new"
  /\ \E r \in iterate(store, ptr["d1"]) :
       last' = [last EXCEPT !.op = "iterate", !.err = r.err, !.yielded = r.yielded]
  /\ UNCHANGED <<store, ptr>>

NextProxy == GetApply \/ IterateApply

SpecProxy == InitProxy /\ [][NextProxy]_vars

\* C23: reading height, width, columns or schema returns the row count, the column
\* count, the ordered names and the name-to-dtype map of the frame, whatever its columns
\* are called, also 'height', 'width', 'columns' or 'schema'; and the column iterator
\* yields every column of such a frame
C23_PureProjections ==
  /\ (last.op = "get" /\ last.prop = "height") =>
       last.res.kind = "number" /\ last.res.n = Height(Frame("d1"))
  /\ (last.op = "get" /\ last.prop = "width") =>
       last.res.kind = "number" /\ last.res.n = Width(Frame("d1"))
  /\ (last.op = "get" /\ last.prop = "columns") =>
       last.res.kind = "names" /\ last.res.names = Columns(Frame("d1"))
  /\ (last.op = "get" /\ last.prop = "schema") =>
       /\ last.res.kind = "object"
       /\ {<<e.key, e.value>> : e \in {last.res.entries[i] : i \in 1..Len(last.res.entries)}}
            = {<<c.name, c.dtype>> : c \in {Frame("d1")[i] : i \in 1..Width(Frame("d1"))}}
  /\ last.op = "iterate" => last.err = NoErr /\ last.yielded = Frame("d1")

(***************************************************************************)
(* sample                                                                  *)
(***************************************************************************)
\* the rows (1-based indices) that make up a sample of n rows of a frame of height h:
\* a seed fixes the sample, without one any sample can come out
Samples(h, n, withReplacement, seed) ==
  LET all == {pick \in [1..n -> 1..h] :
                withReplacement \/ \A i, j \in 1..n : i # j => pick[i] # pick[j]}
  IN  IF Len(seed) = 0 \/ h = 0 THEN all
      ELSE {[i \in 1..n |-> IF withReplacement THEN (seed[1] % h) + 1
                            ELSE ((seed[1] + i - 1) % h) + 1]}

\* _df.sampleN(n, withReplacement, shuffle, seed)
nSampleN(df, n, withReplacement, seed) ==
  IF n > Height(df) /\ ~withReplacement THEN {Fail("InvalidArgument")}
  ELSE IF n > 0 /\ Height(df) = 0 THEN {Fail("InvalidArgument")}
  ELSE {Ok(Take(df, pick)) : pick \in Samples(Height(df), n, withReplacement, seed)}

\* _df.sampleFrac(frac, withReplacement, shuffle, seed); frac in percent
nSampleFrac(df, frac, withReplacement, seed) ==
  nSampleN(df, (frac * Height(df)) \div 100, withReplacement, seed)

\* argc: arguments.length; opts: [kind |-> "undefined" | "number" | "object", n, frac,
\* withReplacement, seed], each field optional, n holding the number for kind "number";
\* frac, withReplacement and seed: the optional positional arguments
RECURSIVE sample(_, _, _, _, _, _, _)
sample(st, id, argc, opts, frac, withReplacement, seed) ==
  IF argc = 0
  THEN wrapAll(st, nSampleN(st[id], 1, Default(withReplacement, FALSE), seed))
  ELSE IF opts.kind = "object" /\ (Len(opts.n) > 0 \/ Len(opts.frac) > 0)
  THEN sample(st, id, 4,
              [opts EXCEPT !.kind = IF Len(opts.n) > 0 THEN "number" ELSE "undefined"],
              opts.frac, opts.withReplacement, seed)
  ELSE IF opts.kind = "number"
  THEN wrapAll(st, nSampleN(st[id], opts.n[1], Default(withReplacement, FALSE), seed))
  ELSE IF Len(frac) > 0
  THEN wrapAll(st, nSampleFrac(st[id], frac[1], Default(withReplacement, FALSE), seed))
  ELSE {wrap(st, Fail("TypeError"))}

SampleFrames ==
  {<<Series("a", vals, "Int64")>> : vals \in UNION {[1..h -> {0, 1, 2}] : h \in 0..MaxRows}}

NoOpts == [kind |-> "undefined", n |-> <<>>, frac |-> <<>>, withReplacement |-> <<>>, seed |-> <<>>]

\* sample(), sample({...}), sample(n, frac, withReplacement, seed)
SampleCalls ==
  {[argc |-> 0, opts |-> NoOpts, frac |-> <<>>, withReplacement |-> <<>>, seed |-> <<>>]}
    \cup {[argc |-> 1,
           opts |-> [kind |-> "object", n |-> n, frac |-> f, withReplacement |-> w, seed |-> sd],
           frac |-> <<>>, withReplacement |-> <<>>, seed |-> <<>>] :
            n \in {<<>>, <<1>>, <<2>>}, f \in {<<>>, <<50>>}, w \in {<<>>, <<TRUE>>},
            sd \in {<<>>, <<1>>}}
    \cup {[argc |-> 4, opts |-> IF Len(n) = 0 THEN NoOpts ELSE [NoOpts EXCEPT !.kind = "number", !.n = n],
           frac |-> f, withReplacement |-> w, seed |-> sd] :
            n \in {<<>>, <<1>>, <<2>>}, f \in {<<>>, <<50>>}, w \in {<<>>, <<TRUE>>},
            sd \in {<<>>, <<1>>}}

InitSample ==
  /\ \E df \in SampleFrames : store = (1 :> df)
  /\ ptr = [d1 |-> 1, d2 |-> 0]
  /\ last = [op |-> "new", args |-> <<>>, err |-> NoErr, out |-> <<>>]

SampleApply ==
  /\ last.op = "new"
  /\ \E c \in SampleCalls :
       \E r \in sample(store, ptr["d1"], c.argc, c.opts, c.frac, c.withReplacement, c.seed) :
         last' = [op |-> "sample", args |-> <<c>>, err |-> r.err, out |-> r.out]
  /\ UNCHANGED <<store, ptr>>

NextSample == SampleApply

SpecSample == InitSample /\ [][NextSample]_vars

\* what the call asks for, in either form
AskedN == IF last.args[1].opts.kind = "undefined" THEN <<>> ELSE last.args[1].opts.n

AskedFrac ==
  IF last.args[1].opts.kind = "object" THEN last.args[1].opts.frac ELSE last.args[1].frac

AskedReplacement ==
  Default(IF last.args[1].opts.kind = "object" THEN last.args[1].opts.withReplacement
          ELSE last.args[1].withReplacement, FALSE)

AskedSeed ==
  IF last.args[1].opts.kind = "object" THEN last.args[1].opts.seed ELSE last.args[1].seed

\* C24: sample fails when neither n nor frac is given, in every call form; with n it
\* returns n rows, with frac alone that fraction of the rows; and withReplacement and
\* seed of the options object act as they do when given positionally
C24_Sample ==
  last.op = "sample" =>
    /\ (Len(AskedN) = 0 /\ Len(AskedFrac) = 0) => last.err \in {"TypeError", "InvalidArgument"}
    /\ (Len(AskedN) = 1 /\ last.err = NoErr) => Height(last.out[1]) = AskedN[1]
    /\ (Len(AskedN) = 0 /\ Len(AskedFrac) = 1 /\ last.err = NoErr) =>
         Height(last.out[1]) = (AskedFrac[1] * Height(Frame("d1"))) \div 100
    /\ (Len(AskedN) = 1 /\ (AskedN[1] <= Height(Frame("d1")) \/ AskedReplacement)
          /\ Height(Frame("d1")) > 0) => last.err = NoErr
    /\ (Len(AskedN) = 1 /\ last.err = NoErr) =>
         \E r \in nSampleN(Frame("d1"), AskedN[1], AskedReplacement, AskedSeed) :
           r.err = NoErr /\ last.out = <<r.df>>

(***************************************************************************)
(* drop                                                                    *)
(***************************************************************************)
DropFrames ==
  {[i \in 1..Len(names) |-> Series(names[i], ConstVals(h, i), "Int64")] :
     names \in {<<>>, <<"a">>, <<"a", "b">>, <<"b", "a">>, <<"a", "b", "c">>, <<"c", "a", "b">>},
     h \in 0..MaxRows}

DropNames == {"a", "b", "c", Missing}

\* lists of names, no name twice
DropArgs ==
  {<<>>} \cup {<<n>> : n \in DropNames}
    \cup {<<n, m>> : <<n, m>> \in {p \in DropNames \X DropNames : p[1] # p[2]}}
    \cup {<<"c", "a", "b">>, <<"a", Missing, "b">>}

InitDrop ==
  /\ \E df \in DropFrames : store = (1 :> df)
  /\ ptr = [d1 |-> 1, d2 |-> 0]
  /\ last = [op |-> "new", form |-> "", args |-> <<>>, err |-> NoErr, out |-> <<>>, recv |-> <<>>]

\* drop(name), drop([names]), drop(name, ...names)
DropApply ==
  /\ last.op = "new"
  /\ \E form \in {"single", "array", "variadic"}, names \in DropArgs :
       /\ form = "single" => Len(names) = 1
       /\ form = "variadic" => Len(names) > 1
       /\ LET r == drop(store, ptr["d1"], form, names)
          IN  /\ store' = (1 :> r.st[ptr["d1"]])
              /\ last' = [op |-> "drop", form |-> form, args |-> names, err |-> r.err,
                          out |-> r.out, recv |-> Frame("d1")]
  /\ UNCHANGED ptr

NextDrop == DropApply

SpecDrop == InitDrop /\ [][NextDrop]_vars

Named(names) == {names[i] : i \in 1..Len(names)}

lazyShiftAndFill(df, n, fillValue) ==
  IF Len(n) = 0 \/ Len(fillValue) = 0 THEN Fail("InvalidArgument")
  ELSE Ok([c \in 1..Len(df) |->
             [df[c] EXCEPT !.values =
                [i \in 1..Height(df) |->
                   IF i - n[1] >= 1 /\ i - n[1] <= Height(df) THEN df[c].values[i - n[1]]
                   ELSE fillValue[1]]]])

\* a number in a condition: 0 is falsy, as is undefined
Truthy(opt) == Len(opt) = 1 /\ opt[1] # 0

\* n: [kind |-> "number", n |-> <<v>>] or [kind |-> "object", n, fillValue], the fields of
\* the object optional; fillValue: the optional second argument. A number has no
\* properties n and fillValue: reading them gives undefined
shiftAndFill(st, id, n, fillValue) ==
  IF n.kind = "number" /\ Truthy(fillValue)
  THEN wrap(st, lazyShiftAndFill(st[id], n.n, fillValue))
  ELSE IF n.kind = "number" THEN wrap(st, lazyShiftAndFill(st[id], <<>>, <<>>))
  ELSE wrap(st, lazyShiftAndFill(st[id], n.n, n.fillValue))

ShiftFrames ==
  {<<Series("a", vals, "Int64")>> : vals \in UNION {[1..h -> {1, 2}] : h \in 0..MaxRows}}

ShiftCalls ==
  {[form |-> f, n |-> n, fillValue |-> v] :
     f \in {"positional", "object"}, n \in -1..2, v \in {-5, 0, 5}}

InitShift ==
  /\ \E df \in ShiftFrames : store = (1 :> df)
  /\ ptr = [d1 |-> 1, d2 |-> 0]
  /\ last = [op |-> "new", args |-> <<>>, err |-> NoErr, out |-> <<>>]

ShiftApply ==
  /\ last.op = "new"
  /\ \E c \in ShiftCalls :
       LET r == IF c.form = "positional"
                THEN shiftAndFill(store, ptr["d1"], [kind |-> "number", n |-> <<c.n>>],
                                  <<c.fillValue>>)
                ELSE shiftAndFill(store, ptr["d1"],
                                  [kind |-> "object", n |-> <<c.n>>, fillValue |-> <<c.fillValue>>],
                                  <<>>)
       IN  last' = [op |-> "shiftAndFill", args |-> <<c>>, err |-> r.err, out |-> r.out]
  /\ UNCHANGED <<store, ptr>>

NextShift == ShiftApply

SpecShift == InitShift /\ [][NextShift]_vars

\* C26: shiftAndFill(n, fillValue) and shiftAndFill({n, fillValue}) return the same frame
\* for every integer n and numeric fillValue: the rows shifted by n, the vacated cells
\* set to fillValue
C26_ShiftAndFill ==
  last.op = "shiftAndFill" =>
    LET c == last.args[1]
        other == shiftAndFill(store, ptr["d1"],
                              [kind |-> "object", n |-> <<c.n>>, fillValue |-> <<c.fillValue>>], <<>>)
    IN  /\ last.err = NoErr
        /\ last.err = other.err /\ last.out = other.out
        /\ Height(last.out[1]) = Height(Frame("d1"))
        /\ \A i \in 1..Height(Frame("d1")) :
             Col(last.out[1], "a")[i] =
               IF i - c.n \in 1..Height(Frame("d1")) THEN Col(Frame("d1"), "a")[i - c.n]
               ELSE c.fillValue

(***************************************************************************)
(* fold                                                                    *)
(***************************************************************************)
\* the callbacks fold is called with: "minus" is s1.minus(s2), "right" returns s2
Apply2(op, s1, s2) ==
  IF op = "minus"
  THEN [s1 EXCEPT !.values = [i \in 1..Len(s1.values) |-> s1.values[i] - s2.values[i]]]
  ELSE s2

\* columns.reduce((acc, curr) => fn(acc, curr)) without an initial value: the first
\* element is the first accumulator; calls counts the calls of fn
RECURSIVE reduceFrom(_, _, _, _, _)
reduceFrom(op, acc, columns, i, calls) ==
  IF i > Len(columns) THEN [err |-> NoErr, out |-> <<acc>>, calls |-> calls]
  ELSE reduceFrom(op, Apply2(op, acc, columns[i]), columns, i + 1, calls + 1)

\* reduce of an empty array without an initial value throws a TypeError
fold(st, id, op) ==
  IF Width(st[id]) = 1 THEN [err |-> NoErr, out |-> <<toSeries(st, id, 0)>>, calls |-> 0]
  ELSE IF Width(st[id]) = 0 THEN [err |-> "TypeError", out |-> <<>>, calls |-> 0]
  ELSE reduceFrom(op, st[id][1], st[id], 2, 0)

FoldFrames ==
  UNION {{[c \in 1..w |-> Series(<<"a", "b", "c">>[c], vals[c], "Int64")] :
            vals \in [1..w -> [1..h -> {1, 2}]]} : w \in 0..3, h \in 0..MaxRows}

\* the error kinds of the engine
EngineErrors ==
  {"ColumnNotFound", "DuplicateColumn", "LengthMismatch", "SchemaMismatch",
   "TypeCoercionFailure", "MissingJoinKey", "KeyCountMismatch", "ExplodeLengthMismatch",
   "InvalidArgument"}

InitFold ==
  /\ \E df \in FoldFrames : store = (1 :> df)
  /\ ptr = [d1 |-> 1, d2 |-> 0]
  /\ last = [op |-> "new", fn |-> "", err |-> NoErr, out |-> <<>>, calls |-> 0]

FoldApply ==
  /\ last.op = "new"
  /\ \E fn \in {"minus", "right"} :
       LET r == fold(store, ptr["d1"], fn)
       IN  last' = [op |-> "fold", fn |-> fn, err |-> r.err, out |-> r.out, calls |-> r.calls]
  /\ UNCHANGED <<store, ptr>>

NextFold == FoldApply

SpecFold == InitFold /\ [][NextFold]_vars

\* C27: fold(op) is op(...op(op(c0, c1), c2)..., c_{w-1}) with op called width - 1 times;
\* a one-column frame gives that column without a call of op; a frame without columns
\* gives a Series or fails with one of the engine's error kinds
C27_Fold ==
  last.op = "fold" =>
    LET df == Frame("d1")
    IN  /\ Width(df) = 1 => last.err = NoErr /\ last.out = <<df[1]>> /\ last.calls = 0
        /\ Width(df) = 2 =>
             /\ last.err = NoErr /\ last.calls = 1
             /\ last.out = <<Apply2(last.fn, df[1], df[2])>>
        /\ Width(df) = 3 =>
             /\ last.err = NoErr /\ last.calls = 2
             /\ last.out = <<Apply2(last.fn, Apply2(last.fn, df[1], df[2]), df[3])>>
        /\ Width(df) = 0 => last.err \in EngineErrors \cup {NoErr}

(***************************************************************************)
(* distinct (deprecated)                                                   *)
(***************************************************************************)
\* return this.unique(opts, subset): unique's keep takes its default
distinct(st, id, opts, subset, keep) == unique(st, id, opts, subset, "first")

\* distinct(maintainOrder, subset, keep)
DistinctCalls == [opts : [kind : {"bool"}, v : BOOLEAN], subset : UniqueSubsets, keep : {"first", "last"}]

DistinctApply ==
  /\ last.op = "new"
  /\ \E c \in DistinctCalls :
       \E r \in distinct(store, ptr["d1"], c.opts, c.subset, c.keep) :
         last' = [op |-> "distinct", args |-> c, err |-> r.err, out |-> r.out,
                  recv |-> <<Frame("d1")>>, again |-> FALSE]
  /\ UNCHANGED <<store, ptr>>

NextDistinct == DistinctApply

SpecDistinct == InitUnique /\ [][NextDistinct]_vars

\* C28: distinct(maintainOrder, subset, keep) returns what unique(maintainOrder, subset,
\* keep) returns, for every combination of arguments, keep = 'last' included
C28_DistinctIsUnique ==
  last.op = "distinct" =>
    \E r \in unique(store, ptr["d1"], last.args.opts, last.args.subset, last.args.keep) :
      r.err = last.err /\ r.out = last.out

(***************************************************************************)
(* hashRows                                                                *)
(***************************************************************************)
HashBits == 6

\* _df.hashRows(k0, k1, k2, k3): one UInt64 per row, a function of the row and the four
\* seeds; the width of the hash is cut down to HashBits bits
nHashRows(df, k0, k1, k2, k3) ==
  Series("", [i \in 1..Height(df) |->
                (k0 + 3 * k1 + 7 * k2 + 11 * k3 + 13 * SeqSum(Row(df, i))) % (2 ^ HashBits)],
         "UInt64")

\* obj: [kind |-> "undefined" | "number" | "object", v, k0, k1, k2, k3], fields optional,
\* v holding the number; k1, k2, k3: the optional positional seeds.
\* o = {k0: obj, k1, k2, k3, ...obj}: a seed the object lacks keeps the value written
\* first, for k0 the object itself, and BigInt(object) throws
hashRows(st, id, obj, k1, k2, k3) ==
  IF obj.kind # "object"
  THEN [err |-> NoErr,
        out |-> <<nHashRows(st[id], Default(obj.v, 0), Default(k1, 1), Default(k2, 2),
                            Default(k3, 3))>>]
  ELSE IF Len(obj.k0) = 0 THEN [err |-> "SyntaxError", out |-> <<>>]
  ELSE [err |-> NoErr,
        out |-> <<nHashRows(st[id], obj.k0[1],
                            Default(obj.k1, Default(k1, 1)), Default(obj.k2, Default(k2, 2)),
                            Default(obj.k3, Default(k3, 3)))>>]

HashFrames ==
  {<<Series("a", vals, "Int64")>> : vals \in UNION {[1..h -> {0, 1}] : h \in 0..MaxRows}}

\* hashRows(k0, k1, k2, k3) and hashRows({k0, k1, k2, k3})
HashCalls ==
  {[form |-> f, k0 |-> k0, k1 |-> k1, k2 |-> k2, k3 |-> k3] :
     f \in {"positional", "object"}, k0 \in {<<>>, <<0>>, <<5>>}, k1 \in {<<>>, <<1>>, <<4>>},
     k2 \in {<<>>, <<9>>}, k3 \in {<<>>, <<8>>}}

InitHash ==
  /\ \E df \in HashFrames : store = (1 :> df)
  /\ ptr = [d1 |-> 1, d2 |-> 0]
  /\ last = [op |-> "new", args |-> <<>>, err |-> NoErr, out |-> <<>>]

HashApply ==
  /\ last.op = "new"
  /\ \E c \in HashCalls :
       LET r == IF c.form = "positional"
                THEN hashRows(store, ptr["d1"],
                              [kind |-> IF Len(c.k0) = 0 THEN "undefined" ELSE "number",
                               v |-> c.k0, k0 |-> <<>>, k1 |-> <<>>, k2 |-> <<>>, k3 |-> <<>>],
                              c.k1, c.k2, c.k3)
                ELSE hashRows(store, ptr["d1"],
                              [kind |-> "object", v |-> <<>>, k0 |-> c.k0, k1 |-> c.k1,
                               k2 |-> c.k2, k3 |-> c.k3],
                              <<>>, <<>>, <<>>)
       IN  last' = [op |-> "hashRows", args |-> <<c>>, err |-> r.err, out |-> r.out]
  /\ UNCHANGED <<store, ptr>>

NextHash == HashApply

SpecHash == InitHash /\ [][NextHash]_vars

\* C29: hashRows with an options object that omits any of k0..k3 uses the defaults 0, 1,
\* 2, 3 for the omitted seeds and returns the hashes of the positional call with the
\* same four seeds; hashRows({}) and hashRows({k1: x}) succeed
C29_HashRowsDefaults ==
  last.op = "hashRows" =>
    /\ last.err = NoErr
    /\ last.out = <<nHashRows(Frame("d1"), Default(last.args[1].k0, 0), Default(last.args[1].k1, 1),
                              Default(last.args[1].k2, 2), Default(last.args[1].k3, 3))>>

(***************************************************************************)
(* The column iterator, step by step                                       *)
(***************************************************************************)
MaxRuns == 2

MaxMutations == 1

IterNames == {"a", "b", "c"}

IterSeries == {Series(n, <<v>>, "Int64") : n \in IterNames, v \in {0, 1}}

IterFrames ==
  {<<>>} \cup {<<Series("a", <<0>>, "Int64")>>}
    \cup {<<Series("a", <<0>>, "Int64"), Series("b", <<0>>, "Int64")>>}

\* phase: "idle" no generator, "created" generator made and its body not yet entered,
\* "running" suspended at the yield, "done" returned
InitIter ==
  /\ \E df \in IterFrames :
       /\ store = (1 :> df)
       /\ last = [op |-> "new", err |-> NoErr, phase |-> "idle", start |-> 0, len |-> 0,
                  yielded |-> <<>>, runs |-> 0, muts |-> 0, orig |-> df]
  /\ ptr = [d1 |-> 1, d2 |-> 0]

\* df[Symbol.iterator](): a new generator; nothing of its body has run
IterCreate ==
  /\ last.phase \in {"idle", "done"} /\ last.runs < MaxRuns
  /\ last' = [last EXCEPT !.op = "iterator", !.phase = "created", !.start = 0, !.len = 0,
                          !.yielded = <<>>]
  /\ UNCHANGED <<store, ptr>>

\* next(): the first call enters the body (start = 0, len = this.width); then, while
\* start < len, toSeries(start) is read and yielded and start incremented
IterNext ==
  /\ last.phase \in {"created", "running"}
  /\ LET len == IF last.phase = "created" THEN ProxyGet(store, ptr["d1"], "width").n
                ELSE last.len
     IN  IF last.start < len
         THEN IF last.start >= Width(Frame("d1"))
              THEN last' = [last EXCEPT !.op = "next", !.phase = "done", !.len = len,
                                        !.err = "OutOfBounds", !.runs = @ + 1]
              ELSE last' = [last EXCEPT !.op = "next", !.phase = "running", !.len = len,
                                        !.start = @ + 1,
                                        !.yielded = Append(@, toSeries(store, ptr["d1"], last.start))]
         ELSE last' = [last EXCEPT !.op = "next", !.phase = "done", !.len = len, !.runs = @ + 1]
  /\ UNCHANGED <<store, ptr>>

\* an in-place mutator between two steps of the iteration
IterMutate ==
  /\ last.phase = "running" /\ last.muts < MaxMutations
  /\ \E r \in {insertAtIdx(store, ptr["d1"], idx, s) : idx \in 0..2, s \in IterSeries}
              \cup {replaceAtIdx(store, ptr["d1"], idx, s) : idx \in 0..1, s \in IterSeries}
              \cup {hstack(store, ptr["d1"], <<s>>, TRUE) : s \in IterSeries} :
       /\ r.err = NoErr
       /\ store' = r.st
       /\ last' = [last EXCEPT !.op = "mutate", !.muts = @ + 1]
  /\ UNCHANGED ptr

NextIter == IterCreate \/ IterNext \/ IterMutate

SpecIter == InitIter /\ [][NextIter]_vars

\* C30: an iteration yields toSeries(0), ..., toSeries(width - 1), each once and in
\* order, as often as it is restarted, and leaves the frame as it was; with an in-place
\* mutator between two steps the iteration still ends, reads no column index >= the
\* current width, and has yielded every column the frame has when it ends
C30_Iteration ==
  /\ last.err = NoErr
  /\ last.start <= last.len \/ last.phase = "created"
  /\ (last.phase = "done" /\ last.muts = 0) =>
       last.yielded = Frame("d1") /\ Frame("d1") = last.orig
  /\ (last.phase = "done" /\ last.muts > 0) =>
       \A c \in 1..Width(Frame("d1")) :
         \E y \in 1..Len(last.yielded) : last.yielded[y] = Frame("d1")[c]

====
